---- MODULE Spec2Model ----
(***************************************************************************)
(* Model of the asynchronous delivery and process-orchestration layer of   *)
(* claude-code-voice-handler: the daemon manager (queue/daemon.py), the    *)
(* message broker over the SQLite ack queue (queue/broker.py), the         *)
(* consumer loop (queue/consumer.py) and the session voice registry        *)
(* (core/session.py).                                                      *)
(*                                                                         *)
(* The specifications of the module share its variables:                   *)
(*   SpecDaemon  caller processes running ensure_running / start /         *)
(*               start_dev / stop / restart against the pid file, the      *)
(*               flock on "<pidfile>.lock" and the daemon processes;       *)
(*   SpecBroker  one client driving a MessageBroker call by call;          *)
(*   Spec        producers, one worker process with its consumer loop and  *)
(*               the durable queue store;                                  *)
(*   SpecFair    Spec with the worker and the clock scheduled fairly;      *)
(*   SpecOutage  one client of a MessageBroker whose store may be missing  *)
(*               or failing;                                               *)
(*   SpecClear   Spec with a process calling QueueProducer.clear_queue;    *)
(*   SpecRegistry  one process using the session voice registry            *)
(*               (core/session.py);                                        *)
(*   SpecShared  several hook processes on the one session table;          *)
(*   SpecDedup   one handler process asking its MessageDeduplicator       *)
(*               (utils/dedup.py);                                         *)
(*   SpecLock    handler processes speaking on the synchronous path under  *)
(*               the SpeechLock (utils/lock.py);                           *)
(*   SpecConsumer  one QueueConsumer object: the thread calling start /    *)
(*               stop / is_running and the loop threads it starts;         *)
(*   SpecConsumerFair  SpecConsumer with the threads scheduled fairly;     *)
(*   SpecReload  the hot reloader (dev/reloader.py): the supervisor        *)
(*               process started by start_dev, its debounce timers, the    *)
(*               timer threads restarting the worker and the worker        *)
(*               subprocesses.                                             *)
(***************************************************************************)
EXTENDS Integers, Sequences, FiniteSets, TLC

\* ------------------------------------------------------------------ bounds
NProcs == 3
MaxSpawns == 3
MaxCrashes == 1
\* envelopes the producers and the worker put into the store in one run of Spec
MaxRows == 2
\* envelopes the client puts into the store in one run of SpecBroker
MaxClientRows == 3
\* QueueConsumer.max_retries as configured (config_schema allows 1..10)
MaxRetries == 2
\* where the history counters saturate
MaxCount == 3
\* processes holding a SessionVoiceManager
NRegs == 2
\* session ids in use
NSessions == 3
\* size of the voice pool (the first voices of VOICES)
NVoices == 2
\* SESSION_EXPIRY_SECONDS, in ticks of the clock
Expiry == 1
\* distinct non-empty announcement texts
NTexts == 3
\* MessageDeduplicator.cache_duration, in ticks of the clock
CacheDuration == 2
\* handler processes speaking on the synchronous path
NSync == 2
\* SpeechLock.timeout, in ticks of the clock
LockTimeout == 2
\* min_spacing handed to SpeechLock.acquire, in ticks of the clock
MinSpacing == 2
\* loop threads one QueueConsumer starts in one run of SpecConsumer
NThreads == 2
\* envelopes put into the store in one run of SpecConsumer
MaxSent == 3
\* QueueConsumer.min_speech_delay, in ticks of 0.5 s
MinSpeechDelay == 1
\* file modification events the observer delivers in one run of SpecReload
NEvents == 2
\* processes spawned in one run of SpecReload, the supervisor among them
MaxReloadPids == 4
\* DebouncedEventHandler.debounce_seconds, in ticks of the clock
Debounce == 2

VARIABLES
    \* ---- daemon manager (SpecDaemon)
    pidFile,      \* content of /tmp/claude_voice_daemon.pid; 0 = no file
    alive,        \* pids for which os.kill(pid, 0) succeeds
    signalled,    \* live daemon processes that received SIGTERM
    lockHolder,   \* caller holding the flock on the .lock file; 0 = free
    nextPid,      \* next pid the OS hands out
    crashes,      \* daemon processes that died without being signalled
    spawnErrors,  \* TRUE once a Popen raised or a spawned process died early
    pc,           \* position of each caller process
    op,           \* the entry point each caller invoked
    ret,          \* return value of the call ("none" until it returns)
    localPid,     \* process.pid in start(), pid in stop()
    \* ---- durable queue store and one broker client (SpecBroker, Spec)
    rows,         \* the SQLite table, in rowid order: payload + status
    total,        \* SQLiteAckQueue.total of the client's broker instance
    held,         \* rowids in the client's unack cache
    \* ---- worker process with its consumer loop (Spec)
    wpc,          \* position in run_worker / _consumer_loop; "down" = no worker
    running,      \* QueueConsumer._running
    callback,     \* whether speak_callback is set
    cur,          \* rowid of the message the loop holds; 0 = none
    outcome,      \* what _process_message met for cur
    wcrashes,     \* worker crashes so far
    \* ---- history (observers, never read by the program)
    okCount,      \* rowid -> Speech Sink invocations that succeeded
    nacks,        \* rowid -> nacks after a failed delivery attempt
    lostAcks,     \* rowid -> crashes between a successful sink call and its ack
    backlog,      \* rowids pending when a Shutdown envelope was last sent
    \* ---- a client whose store may be out of order (SpecOutage)
    avail,        \* MessageBroker.queue is not None
    last,         \* the broker call the client made last and how it ended
    \* ---- history of clear_queue (SpecClear)
    cleared,      \* rowids in the store when clear_queue() last returned
    \* ---- session voice registry (SpecRegistry, SpecShared)
    file,         \* the persisted session table, its records in the order of
                  \* their last_used; each keeps the ticks gone by since then
    mem,          \* process -> SessionVoiceManager.sessions, in the same form
    up,           \* process -> it has built its SessionVoiceManager
    got,          \* what get_voice_for_session returned, the last step being one
    assigned,     \* session -> voice its last lookup returned, "none" once
    \* ---- message deduplicator of one handler process (SpecDedup)
    recent,       \* recent_announcements: (hash, ticks since it was added)
    lastText,     \* last_announcement_text; 0 = ""
    heard,        \* history: text -> ticks since is_duplicate last answered
                  \* False for it; -1 = not since the cache was last cleared
    dres,         \* the last is_duplicate call: its text, its answer and
                  \* heard[text] when it was made
    \* ---- speech lock and the synchronous path (SpecLock)
    speechLock,   \* process holding the flock on the speech lock file; 0 = free
    lpc,          \* process -> its position in handler.speak / acquire
    waited,       \* process -> ticks since start_time of its acquire
    nap,          \* process -> ticks left of its min_spacing sleep
    lastSpoken,   \* ticks since the stamp in the last-speech file; -1 = no file
    lres,         \* process -> how its last handler.speak ended
    \* ---- one QueueConsumer and its threads (SpecConsumer)
    tpc,          \* loop thread -> its position in _consumer_loop
    tcur,         \* loop thread -> rowid of the message it holds; 0 = none
    thread,       \* QueueConsumer._thread: the thread started last; 0 = None
    mpc,          \* position of the thread calling start / stop
    mret,         \* how its last call ended
    tnap,         \* loop thread -> ticks left of its min_speech_delay sleep
    spoke,        \* ticks since _last_speech_time, up to min_speech_delay
    \* ---- hot reloader (SpecReload)
    dev,          \* the process calling start_dev: its position and the
                  \* process.pid of the supervisor it spawned
    obs,          \* observer thread: "in" while on_modified holds _lock
    sup,          \* position of the supervisor (--dev-background) process
    handle,       \* AutoReloader._worker_process: its pid; 0 = None
    spawned,      \* pids of the worker subprocesses the reloader spawned
    tm,           \* threading.Timer -> its state and that of its thread
    tw,           \* timer thread -> pid of the worker its wait() is on
    tleft,        \* timer -> ticks left of its interval
    timer,        \* DebouncedEventHandler._timer: the timer started last
    pending,      \* _pending_files is not empty
    quiet,        \* ticks since the last modification event, up to Debounce
    calls         \* history: restart callbacks invoked since the burst of
                  \* events now under way began, up to 2

dvars == <<pidFile, alive, signalled, lockHolder, nextPid, crashes,
           spawnErrors, pc, op, ret, localPid>>

bvars == <<rows, total, held>>

wvars == <<wpc, running, callback, cur, outcome, wcrashes>>

hvars == <<okCount, nacks, lostAcks, backlog>>

xvars == <<avail, last, cleared>>

svars == <<file, mem, up, got, assigned>>

kvars == <<speechLock, lpc, waited, nap, lastSpoken, lres>>

cvars == <<tpc, tcur, thread, mpc, mret, tnap, spoke>>

rvars == <<dev, obs, sup, handle, spawned, tm, tw, tleft, timer, pending, quiet,
           calls>>

uvars == <<recent, lastText, heard, dres, kvars, cvars, rvars>>

qvars == <<bvars, wvars, hvars, xvars, svars, uvars>>

vars == <<dvars, qvars>>

Procs == 1..NProcs
Ops == {"ensure", "start", "start_dev", "stop", "restart"}


\* ------------------------------------------------------- durable queue store
\* persist-queue's SQLiteAckQueue as MessageBroker drives it.  A row is the
\* payload given to put() plus a status; rowids follow insertion order.  The
\* payload column is written by put() alone: ack and nack change the status.

\* MessageType.SHUTDOWN priority in MessageBroker.send_shutdown
ShutdownPriority == 10

\* priorities the producers use in the model (Producer tiers are 5..10)
Prios == {1, 5, 9}

\* priority of QueueProducer.speak (its default)
SpeakPrios == {5}

\* VoiceMessage.to_dict as stored by put(); retry_count and last_retry_time are
\* the metadata keys, last_retry_time kept as the ticks (0.5 s) elapsed since
\* it, -1 for None
Envelope(kind, prio, retry, age) ==
    [message_type |-> kind, priority |-> prio, retry_count |-> retry,
     last_retry_age |-> age, status |-> "ready"]

SeqMin(a, b) == IF a < b THEN a ELSE b

RowIds(rs) == 1..Len(rs)

WithStatus(rs, st) == {r \in RowIds(rs) : rs[r].status = st}

\* SQLiteAckQueue._mark_ack_status: UPDATE ... SET status = ? WHERE _id = ?
MarkStatus(rs, r, st) == [rs EXCEPT ![r].status = st]

\* the row get() selects: status < unack, lowest rowid first; 0 when there is none
FirstReady(rs) ==
    IF WithStatus(rs, "ready") = {} THEN 0
    ELSE CHOOSE r \in WithStatus(rs, "ready") :
            \A o \in WithStatus(rs, "ready") : r <= o

\* the row the specification expects get() to select: highest priority first,
\* insertion order among equals; 0 when there is none
HighestPriorityFirst(rs) ==
    IF WithStatus(rs, "ready") = {} THEN 0
    ELSE CHOOSE r \in WithStatus(rs, "ready") :
            \A o \in WithStatus(rs, "ready") :
                \/ rs[r].priority > rs[o].priority
                \/ rs[r].priority = rs[o].priority /\ r <= o

\* SQLiteAckQueue.resume_unack_tasks (auto_resume=True in the constructor):
\* every unack row becomes ready again
Resume(rs) ==
    [r \in RowIds(rs) |->
        IF rs[r].status = "unack" THEN [rs[r] EXCEPT !.status = "ready"] ELSE rs[r]]

\* (mutant) a broker opened with auto_resume off
BrokerOpenNoResume(rs) ==
    [rows |-> rs, total |-> Cardinality(WithStatus(rs, "ready")), cache |-> {}]

\* MessageBroker.__init__: a new SQLiteAckQueue on the same file
BrokerOpen(rs) ==
    [rows |-> Resume(rs),
     total |-> Cardinality(WithStatus(Resume(rs), "ready")),
     cache |-> {}]

\* MessageBroker.enqueue: queue.put(message.to_dict())
BrokerEnqueue(q, item) ==
    [rows |-> Append(q.rows, item), total |-> q.total + 1, cache |-> q.cache]

\* MessageBroker.dequeue, a row being ready: queue.get() marks it unack
BrokerDequeue(q) ==
    [rows |-> MarkStatus(q.rows, FirstReady(q.rows), "unack"),
     total |-> q.total - 1,
     cache |-> q.cache \cup {FirstReady(q.rows)}]

\* MessageBroker.ack: queue.ack(raw_item); an item not in the cache is ignored
BrokerAck(q, r) ==
    IF r \in q.cache
       THEN [rows |-> MarkStatus(q.rows, r, "acked"), total |-> q.total,
             cache |-> q.cache \ {r}]
       ELSE q

\* (mutant) a nack that leaves the instance's counter alone
BrokerNackKeepsCount(q, r, retry, age) ==
    IF r \in q.cache
       THEN [rows |-> MarkStatus(q.rows, r, "ready"), total |-> q.total,
             cache |-> q.cache \ {r}]
       ELSE q

\* MessageBroker.nack: raw_item['metadata'] = message.metadata, then
\* queue.nack(raw_item).  `retry` and `age` are the metadata the caller set on
\* the message; the row goes back to ready with the payload put() stored
BrokerNack(q, r, retry, age) ==
    IF r \in q.cache
       THEN [rows |-> MarkStatus(q.rows, r, "ready"), total |-> q.total + 1,
             cache |-> q.cache \ {r}]
       ELSE q

\* MessageBroker.size: queue.size
BrokerSize(q) == q.total

\* MessageBroker.clear: while queue.size > 0: get(timeout=0.1) and ack; an
\* Empty from get() ends the loop
RECURSIVE BrokerClear(_)
BrokerClear(q) ==
    IF q.total > 0 /\ FirstReady(q.rows) # 0
       THEN BrokerClear(BrokerAck(BrokerDequeue(q), FirstReady(q.rows)))
       ELSE q

\* the broker instance of the client process
Client == [rows |-> rows, total |-> total, cache |-> held]

\* the broker instance of the worker holding cur; its own counter is not tracked
Worker == [rows |-> rows, total |-> 0, cache |-> IF cur = 0 THEN {} ELSE {cur}]

Bump(f, r) == [f EXCEPT ![r] = SeqMin(f[r] + 1, MaxCount)]

Zero == [r \in 1..MaxRows |-> 0]

\* ----------------------------------------------------------------- consumer

\* QueueConsumer._calculate_backoff_delay, in ticks of 0.5 s
CalculateBackoffDelay(retry_count) ==
    CASE retry_count = 0 -> 0
      [] retry_count = 1 -> 1
      [] retry_count = 2 -> 2
      [] retry_count = 3 -> 4
      [] retry_count = 4 -> 10
      [] OTHER -> 20

\* ages stop growing once no delay can tell them apart
AgeCap == CalculateBackoffDelay(MaxRetries)

\* QueueConsumer._should_retry
ShouldRetry(retry_count, reason) ==
    reason # "no_callback" /\ retry_count < MaxRetries

\* the backoff test never sending an envelope back
TooSoonIgnoresAge(m) == FALSE

\* _consumer_loop: retry_count > 0 and last_retry_time and elapsed < backoff_delay
TooSoon(m) ==
    /\ m.retry_count > 0
    /\ m.last_retry_age # -1
    /\ m.last_retry_age < CalculateBackoffDelay(m.retry_count)

\* _process_message's (success, reason) for what the call met
Success(o) == o \in {"ok", "false"}
Reason(o) == CASE o = "no_callback" -> "no_callback"
               [] o = "raise" -> "exception"
               [] OTHER -> "success"

\* no broker call made yet
NoCall == [op |-> "none", ret |-> "none", cause |-> "none", waited |-> FALSE]

QueueIdle ==
    /\ avail = TRUE
    /\ last = NoCall
    /\ cleared = {}
    /\ rows = <<>>
    /\ total = 0
    /\ held = {}
    /\ wpc = "down"
    /\ running = FALSE
    /\ callback = TRUE
    /\ cur = 0
    /\ outcome = "none"
    /\ wcrashes = 0
    /\ okCount = Zero
    /\ nacks = Zero
    /\ lostAcks = Zero
    /\ backlog = {}

\* ---------------------------------------------------- session voice registry
\* (core/session.py: SessionVoiceManager over the JSON session table)

RegProcs == 1..NRegs
Sessions == 1..NSessions

\* SessionVoiceManager.VOICES, cut to the pool size of the model
VOICES == SubSeq(<<"nova", "alloy", "echo", "fable", "onyx", "shimmer">>,
                 1, NVoices)

Pool == {VOICES[i] : i \in 1..NVoices}

\* preferred_voice: None or a voice of the pool (config_schema.openai_voice)
Preferred == {"none"} \cup Pool

NoLookup == [session |-> 0, voice |-> "none", kind |-> "none", swept |-> 0]

RegistryIdle ==
    /\ file = <<>>
    /\ mem = [p \in RegProcs |-> <<>>]
    /\ up = [p \in RegProcs |-> FALSE]
    /\ got = NoLookup
    /\ assigned = [s \in Sessions |-> "none"]

\* session ids of a table
Ids(tbl) == {tbl[i].id : i \in DOMAIN tbl}

\* (mutant) the head of the table whatever the session
PosTakesFirst(tbl, s) == IF s \in Ids(tbl) THEN 1 ELSE 0

\* position of session s in a table; 0 when it is not there
Pos(tbl, s) ==
    IF s \in Ids(tbl) THEN CHOOSE i \in DOMAIN tbl : tbl[i].id = s ELSE 0

\* _cleanup_expired_sessions: current_time - last_used > SESSION_EXPIRY_SECONDS
Expired(rec) == rec.unused > Expiry

\* (mutant) a sweep that removes nothing
CleanupExpiredKeepsAll(tbl) == tbl

\* _cleanup_expired_sessions: the table without its expired records
CleanupExpired(tbl) == SelectSeq(tbl, LAMBDA rec : ~Expired(rec))

\* _get_used_voices, the sweep done: data['voice'] of every record
UsedVoices(tbl) == {tbl[i].voice : i \in DOMAIN tbl}

\* (mutant) the most recently used record instead of the least
OldestSessionPicksNewest(tbl) ==
    CHOOSE i \in DOMAIN tbl :
        \A j \in DOMAIN tbl :
            /\ tbl[i].unused <= tbl[j].unused
            /\ j < i => tbl[j].unused > tbl[i].unused

\* min(self.sessions.items(), key=last_used): the record of least last_used,
\* i.e. unused the longest and first in the order of last_used
OldestSession(tbl) ==
    CHOOSE i \in DOMAIN tbl :
        \A j \in DOMAIN tbl :
            /\ tbl[i].unused >= tbl[j].unused
            /\ j < i => tbl[j].unused < tbl[i].unused

\* for voice in self.VOICES: if voice not in used_voices: return voice
FirstUnused(used) ==
    VOICES[CHOOSE i \in 1..NVoices :
              /\ VOICES[i] \notin used
              /\ \A j \in 1..(i - 1) : VOICES[j] \in used]

\* (mutant) the head of the pool whatever is in use
NextAvailableVoiceTakesFirst(tbl, pref) == VOICES[1]

\* _get_next_available_voice on the swept table
NextAvailableVoice(tbl, pref) ==
    IF pref # "none" /\ pref \notin UsedVoices(tbl) THEN pref
    ELSE IF Pool \ UsedVoices(tbl) # {} THEN FirstUnused(UsedVoices(tbl))
    ELSE IF tbl # <<>> THEN tbl[OldestSession(tbl)].voice
    ELSE IF pref # "none" THEN pref
    ELSE VOICES[1]

\* del self.sessions[session_id]
Without(tbl, s) == SelectSeq(tbl, LAMBDA rec : rec.id # s)

\* -------------------------------------------------------- message deduplicator
\* texts a handler may announce; 0 is the empty string
Texts == 0..NTexts

\* hashlib.md5(message.encode()).hexdigest(): a digest that differs from text
\* to text over the few texts of a run
Md5(t) == (t * 7 + 3) % 16

NoCheck == [text |-> 0, dup |-> FALSE, seen |-> -1]

DedupIdle ==
    /\ recent = <<>>
    /\ lastText = 0
    /\ heard = [t \in 1..NTexts |-> -1]
    /\ dres = NoCheck

\* the list comprehension of is_duplicate: the entries younger than
\* cache_duration
Fresh(cache) == SelectSeq(cache, LAMBDA e : e.age < CacheDuration)

\* ----------------------------------------------------------------- speech lock
SyncProcs == 1..NSync

LockIdle ==
    /\ speechLock = 0
    /\ lpc = [p \in SyncProcs |-> "idle"]
    /\ waited = [p \in SyncProcs |-> 0]
    /\ nap = [p \in SyncProcs |-> 0]
    /\ lastSpoken = -1
    /\ lres = [p \in SyncProcs |-> "none"]

\* _lock_file with another process holding the lock as well
LockFileShared(holder, p) == TRUE

\* _lock_file(fd): flock(LOCK_EX | LOCK_NB) on the descriptor p opened gets
\* the lock when no open file holds it, and raises otherwise
LockFile(holder, p) == holder = 0

\* _unlock_file taking the lock from whoever holds it
UnlockFileFreesAll(holder, p) == 0

\* _unlock_file(fd): flock(LOCK_UN) on the descriptor p opened gives up the
\* lock p holds and leaves the lock of another process alone
UnlockFile(holder, p) == IF holder = p THEN 0 ELSE holder

\* ------------------------------------------------------- the hot reloader
Timers == 1..NEvents

ReloadIdle ==
    /\ dev = [pc |-> "idle", pid |-> 0]
    /\ obs = "idle"
    /\ sup = "none"
    /\ handle = 0
    /\ spawned = {}
    /\ tm = [k \in Timers |-> "none"]
    /\ tw = [k \in Timers |-> 0]
    /\ tleft = [k \in Timers |-> 0]
    /\ timer = 0
    /\ pending = FALSE
    /\ quiet = Debounce
    /\ calls = 0

\* ------------------------------------------- one consumer and its threads
Threads == 1..NThreads

ConsumerIdle ==
    /\ tpc = [t \in Threads |-> "none"]
    /\ tcur = [t \in Threads |-> 0]
    /\ thread = 0
    /\ mpc = "idle"
    /\ mret = "none"
    /\ tnap = [t \in Threads |-> 0]
    /\ spoke = MinSpeechDelay

\* the one MessageBroker of the consumer, used by all its threads
Shared == [rows |-> rows, total |-> 0,
           cache |-> {tcur[t] : t \in Threads} \ {0}]

\* threading.Thread.is_alive()
IsAlive(t) == tpc[t] \notin {"none", "ended"}

\* QueueConsumer.is_running()
ConsumerIsRunning == running /\ thread # 0 /\ IsAlive(thread)

\* ------------------------------------------------------------ daemon manager

\* VoiceDaemon._is_process_running (Unix branch): os.kill(pid, 0)
IsProcessRunning(pid) == pid \in alive

\* VoiceDaemon.is_running: pid record present and the process exists
IsRunning == pidFile # 0 /\ IsProcessRunning(pidFile)

\* VoiceDaemon._release_pid_lock: LOCK_UN + close of this process's lock fd
ReleasedBy(p) == IF lockHolder = p THEN 0 ELSE lockHolder

\* where a return from stop() leads: restart() goes on to start()
AfterStop(p) == IF op[p] = "restart" THEN "s_acquire" ELSE "returned"

\* a caller process enters one of the daemon entry points
Call(p) ==
    /\ pc[p] = "idle"
    /\ \E o \in Ops :
        /\ op' = [op EXCEPT ![p] = o]
        /\ pc' = [pc EXCEPT ![p] =
                    CASE o = "ensure" -> "e_acquire"
                      [] o \in {"start", "start_dev"} -> "s_acquire"
                      [] OTHER -> "t_read"]
    /\ UNCHANGED qvars
    /\ UNCHANGED <<pidFile, alive, signalled, lockHolder, nextPid,
                   crashes, spawnErrors, ret, localPid>>

\* ensure_running: _acquire_pid_lock (LOCK_EX | LOCK_NB)
EnsureAcquire(p) ==
    /\ pc[p] = "e_acquire"
    /\ IF lockHolder = 0
          THEN /\ lockHolder' = p
               /\ pc' = [pc EXCEPT ![p] = "e_clean"]
          ELSE /\ lockHolder' = lockHolder
               /\ pc' = [pc EXCEPT ![p] = "e_wait"]
    /\ UNCHANGED qvars
    /\ UNCHANGED <<pidFile, alive, signalled, nextPid, crashes,
                   spawnErrors, op, ret, localPid>>

\* ensure_running, lock held elsewhere: sleep(0.5); return is_running()
EnsureLost(p) ==
    /\ pc[p] = "e_wait"
    /\ ret' = [ret EXCEPT ![p] = IF IsRunning THEN "true" ELSE "false"]
    /\ pc' = [pc EXCEPT ![p] = "returned"]
    /\ UNCHANGED qvars
    /\ UNCHANGED <<pidFile, alive, signalled, lockHolder, nextPid,
                   crashes, spawnErrors, op, localPid>>

\* ensure_running: _cleanup_stale_pid
EnsureCleanup(p) ==
    /\ pc[p] = "e_clean"
    /\ pidFile' = IF pidFile # 0 /\ ~IsProcessRunning(pidFile) THEN 0 ELSE pidFile
    /\ pc' = [pc EXCEPT ![p] = "e_check"]
    /\ UNCHANGED qvars
    /\ UNCHANGED <<alive, signalled, lockHolder, nextPid, crashes,
                   spawnErrors, op, ret, localPid>>

\* ensure_running: if self.is_running(): return True   (no release on this path)
EnsureCheck(p) ==
    /\ pc[p] = "e_check"
    /\ IF IsRunning
          THEN /\ ret' = [ret EXCEPT ![p] = "true"]
               /\ pc' = [pc EXCEPT ![p] = "returned"]
          ELSE /\ ret' = ret
               /\ pc' = [pc EXCEPT ![p] = "e_release"]
    /\ UNCHANGED qvars
    /\ UNCHANGED <<pidFile, alive, signalled, lockHolder, nextPid,
                   crashes, spawnErrors, op, localPid>>

\* ensure_running: self._release_pid_lock(), then start_dev() or start()
\* according to DEV_MODE; both follow the same steps from here on
EnsureRelease(p) ==
    /\ pc[p] = "e_release"
    /\ lockHolder' = ReleasedBy(p)
    /\ pc' = [pc EXCEPT ![p] = "s_acquire"]
    /\ UNCHANGED qvars
    /\ UNCHANGED <<pidFile, alive, signalled, nextPid, crashes,
                   spawnErrors, op, ret, localPid>>

\* start / start_dev: _acquire_pid_lock
StartAcquire(p) ==
    /\ pc[p] = "s_acquire"
    /\ IF lockHolder = 0
          THEN /\ lockHolder' = p
               /\ pc' = [pc EXCEPT ![p] = "s_check"]
          ELSE /\ lockHolder' = lockHolder
               /\ pc' = [pc EXCEPT ![p] = "s_lost"]
    /\ UNCHANGED qvars
    /\ UNCHANGED <<pidFile, alive, signalled, nextPid, crashes,
                   spawnErrors, op, ret, localPid>>

\* start / start_dev, lock held elsewhere: return self.is_running()
StartLost(p) ==
    /\ pc[p] = "s_lost"
    /\ ret' = [ret EXCEPT ![p] = IF IsRunning THEN "true" ELSE "false"]
    /\ pc' = [pc EXCEPT ![p] = "returned"]
    /\ UNCHANGED qvars
    /\ UNCHANGED <<pidFile, alive, signalled, lockHolder, nextPid,
                   crashes, spawnErrors, op, localPid>>

\* start / start_dev: if self.is_running(): return True   (first try block:
\* an except clause releases the lock, the return does not)
StartCheck(p) ==
    /\ pc[p] = "s_check"
    /\ IF IsRunning
          THEN /\ ret' = [ret EXCEPT ![p] = "true"]
               /\ pc' = [pc EXCEPT ![p] = "returned"]
          ELSE /\ ret' = ret
               /\ pc' = [pc EXCEPT ![p] = "s_spawn"]
    /\ UNCHANGED qvars
    /\ UNCHANGED <<pidFile, alive, signalled, lockHolder, nextPid,
                   crashes, spawnErrors, op, localPid>>

\* start / start_dev: subprocess.Popen([... '--worker' | '--dev-background'])
StartSpawn(p) ==
    /\ pc[p] = "s_spawn"
    /\ nextPid <= MaxSpawns
    /\ alive' = alive \cup {nextPid}
    /\ localPid' = [localPid EXCEPT ![p] = nextPid]
    /\ nextPid' = nextPid + 1
    /\ pc' = [pc EXCEPT ![p] = "s_verify"]
    /\ UNCHANGED qvars
    /\ UNCHANGED <<pidFile, signalled, lockHolder, crashes, spawnErrors,
                   op, ret>>

\* start / start_dev: Popen raises; except clause returns False
StartSpawnRaises(p) ==
    /\ pc[p] = "s_spawn"
    /\ spawnErrors' = TRUE
    /\ ret' = [ret EXCEPT ![p] = "false"]
    /\ pc' = [pc EXCEPT ![p] = "s_release"]
    /\ UNCHANGED qvars
    /\ UNCHANGED <<pidFile, alive, signalled, lockHolder, nextPid,
                   crashes, op, localPid>>

\* start / start_dev: sleep(0.5); if _is_process_running(process.pid):
\* _write_pid(process.pid); return True  else return False
StartVerify(p) ==
    /\ pc[p] = "s_verify"
    /\ IF IsProcessRunning(localPid[p])
          THEN /\ pidFile' = localPid[p]
               /\ ret' = [ret EXCEPT ![p] = "true"]
               /\ spawnErrors' = spawnErrors
          ELSE /\ pidFile' = pidFile
               /\ ret' = [ret EXCEPT ![p] = "false"]
               /\ spawnErrors' = TRUE
    /\ pc' = [pc EXCEPT ![p] = "s_release"]
    /\ UNCHANGED qvars
    /\ UNCHANGED <<alive, signalled, lockHolder, nextPid, crashes,
                   op, localPid>>

\* start / start_dev: finally: self._release_pid_lock()
StartRelease(p) ==
    /\ pc[p] = "s_release"
    /\ lockHolder' = ReleasedBy(p)
    /\ pc' = [pc EXCEPT ![p] = "returned"]
    /\ UNCHANGED qvars
    /\ UNCHANGED <<pidFile, alive, signalled, nextPid, crashes,
                   spawnErrors, op, ret, localPid>>

\* stop: pid = self._read_pid(); if not pid: return True
StopRead(p) ==
    /\ pc[p] = "t_read"
    /\ localPid' = [localPid EXCEPT ![p] = pidFile]
    /\ IF pidFile = 0
          THEN /\ ret' = [ret EXCEPT ![p] = "true"]
               /\ pc' = [pc EXCEPT ![p] = AfterStop(p)]
          ELSE /\ ret' = ret
               /\ pc' = [pc EXCEPT ![p] = "t_kill"]
    /\ UNCHANGED qvars
    /\ UNCHANGED <<pidFile, alive, signalled, lockHolder, nextPid,
                   crashes, spawnErrors, op>>

\* stop: os.kill(pid, SIGTERM); ProcessLookupError lands in except: return False
StopKill(p) ==
    /\ pc[p] = "t_kill"
    /\ IF IsProcessRunning(localPid[p])
          THEN /\ signalled' = signalled \cup {localPid[p]}
               /\ ret' = ret
               /\ pc' = [pc EXCEPT ![p] = "t_poll"]
          ELSE /\ signalled' = signalled
               /\ ret' = [ret EXCEPT ![p] = "false"]
               /\ pc' = [pc EXCEPT ![p] = AfterStop(p)]
    /\ UNCHANGED qvars
    /\ UNCHANGED <<pidFile, alive, lockHolder, nextPid, crashes,
                   spawnErrors, op, localPid>>

\* stop: for _ in range(10): if not self._is_process_running(pid): break
StopPollGone(p) ==
    /\ pc[p] = "t_poll"
    /\ ~IsProcessRunning(localPid[p])
    /\ pc' = [pc EXCEPT ![p] = "t_remove"]
    /\ UNCHANGED qvars
    /\ UNCHANGED <<pidFile, alive, signalled, lockHolder, nextPid,
                   crashes, spawnErrors, op, ret, localPid>>

\* stop: the ten polls (5 s) end with the process still there
StopPollExhausted(p) ==
    /\ pc[p] = "t_poll"
    /\ IsProcessRunning(localPid[p])
    /\ pc' = [pc EXCEPT ![p] = "t_remove"]
    /\ UNCHANGED qvars
    /\ UNCHANGED <<pidFile, alive, signalled, lockHolder, nextPid,
                   crashes, spawnErrors, op, ret, localPid>>

\* stop: self._remove_pid(); return True   (no lock taken, whatever the record)
StopRemove(p) ==
    /\ pc[p] = "t_remove"
    /\ pidFile' = 0
    /\ ret' = [ret EXCEPT ![p] = "true"]
    /\ pc' = [pc EXCEPT ![p] = AfterStop(p)]
    /\ UNCHANGED qvars
    /\ UNCHANGED <<alive, signalled, lockHolder, nextPid, crashes,
                   spawnErrors, op, localPid>>

\* the caller process ends; the OS drops whatever flock it still holds
ProcExit(p) ==
    /\ pc[p] = "returned"
    /\ pc' = [pc EXCEPT ![p] = "exited"]
    /\ lockHolder' = ReleasedBy(p)
    /\ UNCHANGED qvars
    /\ UNCHANGED <<pidFile, alive, signalled, nextPid, crashes,
                   spawnErrors, op, ret, localPid>>

\* run_worker after SIGTERM: handle_signal -> consumer.stop(wait=False); the
\* loop ends and the process exits (its finally names an undefined `daemon`,
\* so the pid file is left as it is)
DaemonExits(w) ==
    /\ w \in alive /\ w \in signalled
    /\ alive' = alive \ {w}
    /\ signalled' = signalled \ {w}
    /\ UNCHANGED qvars
    /\ UNCHANGED <<pidFile, lockHolder, nextPid, crashes, spawnErrors,
                   pc, op, ret, localPid>>

\* a daemon process dies on its own (crash, kill -9)
DaemonCrashes(w) ==
    /\ w \in alive
    /\ crashes < MaxCrashes
    /\ alive' = alive \ {w}
    /\ signalled' = signalled \ {w}
    /\ crashes' = crashes + 1
    /\ UNCHANGED qvars
    /\ UNCHANGED <<pidFile, lockHolder, nextPid, spawnErrors,
                   pc, op, ret, localPid>>

DaemonIdle ==
    /\ pidFile = 0
    /\ alive = {}
    /\ signalled = {}
    /\ lockHolder = 0
    /\ nextPid = 1
    /\ crashes = 0
    /\ spawnErrors = FALSE
    /\ pc = [p \in Procs |-> "idle"]
    /\ op = [p \in Procs |-> "none"]
    /\ ret = [p \in Procs |-> "none"]
    /\ localPid = [p \in Procs |-> 0]

InitDaemon == DaemonIdle /\ QueueIdle /\ RegistryIdle /\ DedupIdle
    /\ LockIdle /\ ConsumerIdle /\ ReloadIdle

NextDaemon ==
    \/ \E p \in Procs : Call(p)
    \/ \E p \in Procs : EnsureAcquire(p)
    \/ \E p \in Procs : EnsureLost(p)
    \/ \E p \in Procs : EnsureCleanup(p)
    \/ \E p \in Procs : EnsureCheck(p)
    \/ \E p \in Procs : EnsureRelease(p)
    \/ \E p \in Procs : StartAcquire(p)
    \/ \E p \in Procs : StartLost(p)
    \/ \E p \in Procs : StartCheck(p)
    \/ \E p \in Procs : StartSpawn(p)
    \/ \E p \in Procs : StartSpawnRaises(p)
    \/ \E p \in Procs : StartVerify(p)
    \/ \E p \in Procs : StartRelease(p)
    \/ \E p \in Procs : StopRead(p)
    \/ \E p \in Procs : StopKill(p)
    \/ \E p \in Procs : StopPollGone(p)
    \/ \E p \in Procs : StopPollExhausted(p)
    \/ \E p \in Procs : StopRemove(p)
    \/ \E p \in Procs : ProcExit(p)
    \/ \E w \in 1..MaxSpawns : DaemonExits(w)
    \/ \E w \in 1..MaxSpawns : DaemonCrashes(w)

SpecDaemon == InitDaemon /\ [][NextDaemon]_vars


\* ------------------------------------------- broker driven by one client
\* (SpecBroker: the calls tests/test_queue.py makes on a MessageBroker)

SetClient(q) == rows' = q.rows /\ total' = q.total /\ held' = q.cache

\* broker.enqueue(VoiceMessage(SPEAK, priority=prio))
ClientEnqueue ==
    /\ Len(rows) < MaxClientRows
    /\ \E prio \in Prios :
        SetClient(BrokerEnqueue(Client, Envelope("speak", prio, 0, -1)))
    /\ UNCHANGED <<dvars, uvars, svars, xvars, wvars, hvars>>

\* broker.send_shutdown()
ClientSendShutdown ==
    /\ Len(rows) < MaxClientRows
    /\ SetClient(BrokerEnqueue(Client, Envelope("shutdown", ShutdownPriority, 0, -1)))
    /\ UNCHANGED <<dvars, uvars, svars, xvars, wvars, hvars>>

\* broker.dequeue(timeout): None when nothing is ready
ClientDequeue ==
    /\ IF FirstReady(rows) # 0
          THEN SetClient(BrokerDequeue(Client))
          ELSE UNCHANGED bvars
    /\ UNCHANGED <<dvars, uvars, svars, xvars, wvars, hvars>>

\* broker.ack(message)
ClientAck ==
    /\ \E r \in held : SetClient(BrokerAck(Client, r))
    /\ UNCHANGED <<dvars, uvars, svars, xvars, wvars, hvars>>

\* broker.nack(message), the caller having raised the message's retry_count
ClientNack ==
    /\ \E r \in held :
        SetClient(BrokerNack(Client, r, rows[r].retry_count + 1, 0))
    /\ UNCHANGED <<dvars, uvars, svars, xvars, wvars, hvars>>

\* broker.clear() / QueueProducer.clear_queue()
ClientClear ==
    /\ SetClient(BrokerClear(Client))
    /\ UNCHANGED <<dvars, uvars, svars, xvars, wvars, hvars>>

\* MessageBroker(queue_path=...) again on the same file
ClientReopen ==
    /\ SetClient(BrokerOpen(rows))
    /\ UNCHANGED <<dvars, uvars, svars, xvars, wvars, hvars>>

InitBroker == DaemonIdle /\ QueueIdle /\ RegistryIdle /\ DedupIdle
    /\ LockIdle /\ ConsumerIdle /\ ReloadIdle

NextBroker ==
    \/ ClientEnqueue
    \/ ClientSendShutdown
    \/ ClientDequeue
    \/ ClientAck
    \/ ClientNack
    \/ ClientClear
    \/ ClientReopen

SpecBroker == InitBroker /\ [][NextBroker]_vars

\* ------------------------------------ one client, the store out of order
\* (SpecOutage: persist-queue missing or SQLiteAckQueue(...) raising leaves
\* MessageBroker.queue = None; put() and get() may raise)

\* how a broker call ended: its return value, what it met, and whether it
\* blocked for the timeout first
Ended(o, r, c, w) == [op |-> o, ret |-> r, cause |-> c, waited |-> w]

\* MessageBroker(queue_path=...): the constructor keeps queue = None when
\* SQLiteAckQueue cannot be built
OutageOpen ==
    /\ \E built \in BOOLEAN :
        /\ avail' = built
        /\ IF built THEN SetClient(BrokerOpen(rows))
                    ELSE rows' = rows /\ total' = 0 /\ held' = {}
    /\ last' = Ended("open", "none", "none", FALSE)
    /\ UNCHANGED <<dvars, uvars, svars, wvars, hvars, cleared>>

\* (mutant) an enqueue that reports success whatever happened
OutageEnqueueSaysTrue ==
    /\ \E prio \in Prios, put \in {"ok", "raises"} :
        /\ (avail /\ put = "ok") => Len(rows) < MaxClientRows
        /\ IF avail /\ put = "ok"
              THEN /\ SetClient(BrokerEnqueue(Client, Envelope("speak", prio, 0, -1)))
                   /\ last' = Ended("enqueue", "true", "stored", FALSE)
              ELSE /\ UNCHANGED bvars
                   /\ last' = Ended("enqueue", "true",
                                IF avail THEN "failed" ELSE "unavailable", FALSE)
    /\ UNCHANGED <<dvars, uvars, svars, wvars, hvars, avail, cleared>>

\* QueueProducer.speak -> MessageBroker.enqueue: queue is None: return False;
\* queue.put raises: except: return False; otherwise return True
OutageEnqueue ==
    /\ \E prio \in Prios, put \in {"ok", "raises"} :
        /\ (avail /\ put = "ok") => Len(rows) < MaxClientRows
        /\ IF avail /\ put = "ok"
              THEN /\ SetClient(BrokerEnqueue(Client, Envelope("speak", prio, 0, -1)))
                   /\ last' = Ended("enqueue", "true", "stored", FALSE)
              ELSE /\ UNCHANGED bvars
                   /\ last' = Ended("enqueue", "false",
                                IF avail THEN "failed" ELSE "unavailable", FALSE)
    /\ UNCHANGED <<dvars, uvars, svars, wvars, hvars, avail, cleared>>

\* MessageBroker.dequeue(timeout): queue is None: return None at once;
\* queue.get(timeout=timeout) raises Empty after the timeout, or another
\* error sooner or later: except Exception: return None
OutageDequeue ==
    /\ \E get \in {"ok", "raises"}, w \in BOOLEAN :
        CASE ~avail ->
                /\ UNCHANGED bvars
                /\ last' = Ended("dequeue", "none", "unavailable", FALSE)
          [] avail /\ get = "raises" ->
                /\ UNCHANGED bvars
                /\ last' = Ended("dequeue", "none", "failed", w)
          [] avail /\ get = "ok" /\ FirstReady(rows) = 0 ->
                /\ UNCHANGED bvars
                /\ last' = Ended("dequeue", "none", "empty", TRUE)
          [] OTHER ->
                /\ SetClient(BrokerDequeue(Client))
                /\ last' = Ended("dequeue", "envelope", "served", FALSE)
    /\ UNCHANGED <<dvars, uvars, svars, wvars, hvars, avail, cleared>>

\* MessageBroker.ack of a message the client holds
OutageAck ==
    /\ \E r \in held : SetClient(BrokerAck(Client, r))
    /\ last' = Ended("ack", "none", "none", FALSE)
    /\ UNCHANGED <<dvars, uvars, svars, wvars, hvars, avail, cleared>>

NextOutage ==
    \/ OutageOpen
    \/ OutageEnqueue
    \/ OutageDequeue
    \/ OutageAck

SpecOutage == InitBroker /\ [][NextOutage]_vars

\* --------------------------------------- producers, worker and consumer loop
\* (Spec)

\* a hook process: QueueProducer.speak on its own MessageBroker instance;
\* metadata may carry retry_count / last_retry_time (VoiceMessage.__post_init__
\* only fills them in when absent)
ProducerSpeak ==
    /\ Len(rows) < MaxRows
    /\ \E prio \in SpeakPrios, retry \in {0, MaxRetries} :
        rows' = BrokerEnqueue(BrokerOpen(rows),
                    Envelope("speak", prio, retry, IF retry = 0 THEN -1 ELSE 0)).rows
    /\ UNCHANGED <<dvars, uvars, svars, xvars, total, held, wvars, hvars>>

\* run_worker: QueueConsumer() opens the broker; consumer._running = True
WorkerStart ==
    /\ wpc = "down"
    /\ rows' = BrokerOpen(rows).rows
    /\ wpc' = "loop"
    /\ running' = TRUE
    /\ callback' \in BOOLEAN
    /\ UNCHANGED <<dvars, uvars, svars, xvars, total, held, cur, outcome, wcrashes, hvars>>

\* _consumer_loop: while self._running; the loop over, run_worker ends
LoopCheck ==
    /\ wpc = "loop"
    /\ IF running
          THEN wpc' = "deq" /\ running' = running
          ELSE wpc' = "down" /\ running' = FALSE
    /\ UNCHANGED <<dvars, uvars, svars, xvars, bvars, callback, cur, outcome, wcrashes, hvars>>

\* _consumer_loop: message = self.broker.dequeue(timeout=0.5)
LoopDequeue ==
    /\ wpc = "deq"
    /\ IF FirstReady(rows) # 0
          THEN /\ rows' = BrokerDequeue(Worker).rows
               /\ cur' = FirstReady(rows)
               /\ wpc' = "got"
          ELSE /\ rows' = rows
               /\ cur' = 0
               /\ wpc' = "loop"
    /\ UNCHANGED <<dvars, uvars, svars, xvars, total, held, running, callback, outcome, wcrashes, hvars>>

\* _consumer_loop: SHUTDOWN: ack and break
GotShutdown ==
    /\ wpc = "got"
    /\ rows[cur].message_type = "shutdown"
    /\ rows' = BrokerAck(Worker, cur).rows
    /\ cur' = 0
    /\ wpc' = "down"
    /\ running' = FALSE
    /\ UNCHANGED <<dvars, uvars, svars, xvars, total, held, callback, outcome, wcrashes, hvars>>

\* _consumer_loop: too soon to retry: nack and continue
GotBackoff ==
    /\ wpc = "got"
    /\ rows[cur].message_type # "shutdown"
    /\ TooSoon(rows[cur])
    /\ rows' = BrokerNack(Worker, cur, rows[cur].retry_count,
                          rows[cur].last_retry_age).rows
    /\ cur' = 0
    /\ wpc' = "loop"
    /\ UNCHANGED <<dvars, uvars, svars, xvars, total, held, running, callback, outcome, wcrashes, hvars>>

\* _process_message: no callback, or the Speech Sink call returns True,
\* returns False (the result is not looked at) or raises
GotProcess ==
    /\ wpc = "got"
    /\ rows[cur].message_type # "shutdown"
    /\ ~TooSoon(rows[cur])
    /\ IF callback
          THEN /\ outcome' \in {"ok", "false", "raise"}
               /\ okCount' = IF outcome' = "ok" THEN Bump(okCount, cur) ELSE okCount
          ELSE /\ outcome' = "no_callback"
               /\ okCount' = okCount
    /\ wpc' = "done"
    /\ UNCHANGED <<dvars, uvars, svars, xvars, bvars, running, callback, cur, wcrashes,
                   nacks, lostAcks, backlog>>

\* (mutant) success answered with nack instead of ack
DoneSuccessRequeues ==
    /\ wpc = "done"
    /\ Success(outcome)
    /\ rows' = BrokerNack(Worker, cur, rows[cur].retry_count, -1).rows
    /\ cur' = 0
    /\ outcome' = "none"
    /\ wpc' = "loop"
    /\ UNCHANGED <<dvars, uvars, svars, xvars, total, held, running, callback, wcrashes, hvars>>

\* _consumer_loop: success: self.broker.ack(message)
DoneSuccess ==
    /\ wpc = "done"
    /\ Success(outcome)
    /\ rows' = BrokerAck(Worker, cur).rows
    /\ cur' = 0
    /\ outcome' = "none"
    /\ wpc' = "loop"
    /\ UNCHANGED <<dvars, uvars, svars, xvars, total, held, running, callback, wcrashes, hvars>>

\* _consumer_loop: failure, _should_retry: retry_count + 1, last_retry_time =
\* now, self.broker.nack(message)
DoneRetry ==
    /\ wpc = "done"
    /\ ~Success(outcome)
    /\ ShouldRetry(rows[cur].retry_count, Reason(outcome))
    /\ rows' = BrokerNack(Worker, cur, rows[cur].retry_count + 1, 0).rows
    /\ nacks' = Bump(nacks, cur)
    /\ cur' = 0
    /\ outcome' = "none"
    /\ wpc' = "loop"
    /\ UNCHANGED <<dvars, uvars, svars, xvars, total, held, running, callback, wcrashes,
                   okCount, lostAcks, backlog>>

\* _consumer_loop: failure, no retry: ack to remove from the queue (drop)
DoneDrop ==
    /\ wpc = "done"
    /\ ~Success(outcome)
    /\ ~ShouldRetry(rows[cur].retry_count, Reason(outcome))
    /\ rows' = BrokerAck(Worker, cur).rows
    /\ cur' = 0
    /\ outcome' = "none"
    /\ wpc' = "loop"
    /\ UNCHANGED <<dvars, uvars, svars, xvars, total, held, running, callback, wcrashes, hvars>>

\* run_worker's handle_signal (SIGTERM / SIGINT): consumer.stop(wait=False):
\* _running = False, then broker.send_shutdown()
WorkerSignal ==
    /\ wpc # "down"
    /\ running
    /\ Len(rows) < MaxRows
    /\ running' = FALSE
    /\ rows' = BrokerEnqueue(Worker, Envelope("shutdown", ShutdownPriority, 0, -1)).rows
    /\ backlog' = WithStatus(rows, "ready")
    /\ UNCHANGED <<dvars, uvars, svars, xvars, total, held, wpc, callback, cur, outcome, wcrashes,
                   okCount, nacks, lostAcks>>

\* the worker process dies where it stands (kill -9, power loss)
WorkerCrash ==
    /\ wpc # "down"
    /\ wcrashes < MaxCrashes
    /\ wcrashes' = wcrashes + 1
    /\ lostAcks' = IF wpc = "done" /\ outcome = "ok" THEN Bump(lostAcks, cur)
                   ELSE lostAcks
    /\ wpc' = "down"
    /\ running' = FALSE
    /\ cur' = 0
    /\ outcome' = "none"
    /\ UNCHANGED <<dvars, uvars, svars, xvars, bvars, callback, okCount, nacks, backlog>>

\* half a second passes
Aging(rs) == {r \in RowIds(rs) : /\ rs[r].status # "acked"
                                 /\ rs[r].last_retry_age # -1
                                 /\ rs[r].last_retry_age < AgeCap}

Tick ==
    /\ Aging(rows) # {}
    /\ rows' = [r \in RowIds(rows) |->
                  IF r \in Aging(rows)
                     THEN [rows[r] EXCEPT !.last_retry_age = @ + 1]
                     ELSE rows[r]]
    /\ UNCHANGED <<dvars, uvars, svars, xvars, total, held, wvars, hvars>>

Init == DaemonIdle /\ QueueIdle /\ RegistryIdle /\ DedupIdle
    /\ LockIdle /\ ConsumerIdle /\ ReloadIdle

\* the steps of the worker process
WorkerNext ==
    \/ WorkerStart
    \/ LoopCheck
    \/ LoopDequeue
    \/ GotShutdown
    \/ GotBackoff
    \/ GotProcess
    \/ DoneSuccess
    \/ DoneRetry
    \/ DoneDrop

Next ==
    \/ ProducerSpeak
    \/ WorkerStart
    \/ LoopCheck
    \/ LoopDequeue
    \/ GotShutdown
    \/ GotBackoff
    \/ GotProcess
    \/ DoneSuccess
    \/ DoneRetry
    \/ DoneDrop
    \/ WorkerSignal
    \/ WorkerCrash
    \/ Tick

Spec == Init /\ [][Next]_vars

\* ------------------------------------------------ clear_queue beside a worker
\* (SpecClear: Spec with a process that calls QueueProducer.clear_queue)

\* QueueProducer.clear_queue on the caller's own MessageBroker instance:
\* broker.clear() gets and acks while queue.size > 0
ProducerClear ==
    /\ rows' = BrokerClear(BrokerOpen(rows)).rows
    /\ cleared' = {r \in RowIds(rows) : rows[r].status # "acked"}
    /\ UNCHANGED <<dvars, uvars, svars, total, held, wvars, hvars, avail, last>>

NextClear ==
    \/ ProducerClear
    \/ ProducerSpeak
    \/ WorkerStart
    \/ LoopCheck
    \/ LoopDequeue
    \/ GotShutdown
    \/ GotBackoff
    \/ GotProcess
    \/ DoneSuccess
    \/ DoneRetry
    \/ DoneDrop
    \/ WorkerSignal
    \/ WorkerCrash
    \/ Tick

SpecClear == Init /\ [][NextClear]_vars

\* ----------------------------------------- processes using the registry
\* (SpecRegistry: one process; SpecShared: NRegs processes on one file)

\* the queue, the worker and the daemon manager take no part
RegistryOnly == UNCHANGED <<dvars, uvars, bvars, wvars, hvars, xvars>>

\* the records the sweep of process p would remove now
Swept(p) == Ids(mem[p]) \ Ids(CleanupExpired(mem[p]))

\* SessionVoiceManager.__init__: self.sessions = self._load_sessions()
RegStart(p) ==
    /\ ~up[p]
    /\ up' = [up EXCEPT ![p] = TRUE]
    /\ mem' = [mem EXCEPT ![p] = file]
    /\ UNCHANGED <<file, assigned>>
    /\ got' = NoLookup
    /\ RegistryOnly

\* the process ends; its SessionVoiceManager goes with it
RegExit(p) ==
    /\ up[p]
    /\ up' = [up EXCEPT ![p] = FALSE]
    /\ mem' = [mem EXCEPT ![p] = <<>>]
    /\ UNCHANGED <<file, assigned>>
    /\ got' = NoLookup
    /\ RegistryOnly

\* get_voice_for_session(session_id, preferred_voice); session 0 stands for
\* an empty session_id
Lookup(p) ==
    /\ up[p]
    /\ \E s \in Sessions \cup {0}, pref \in Preferred :
        LET tbl   == mem[p]
            swept == CleanupExpired(tbl)
            voice == NextAvailableVoice(swept, pref)
        IN  CASE s = 0 ->
                  /\ got' = [session |-> 0, kind |-> "none", swept |-> 0,
                             voice |-> IF pref # "none" THEN pref ELSE VOICES[1]]
                  /\ UNCHANGED <<file, mem, assigned>>
              [] s # 0 /\ s \in Ids(tbl) ->
                  /\ mem' = [mem EXCEPT ![p] =
                               Append(Without(tbl, s),
                                      [tbl[Pos(tbl, s)] EXCEPT !.unused = 0])]
                  /\ file' = mem'[p]
                  /\ got' = [session |-> s, kind |-> "existing", swept |-> 0,
                             voice |-> tbl[Pos(tbl, s)].voice]
                  /\ assigned' = [assigned EXCEPT ![s] = tbl[Pos(tbl, s)].voice]
              [] OTHER ->
                  /\ mem' = [mem EXCEPT ![p] =
                               Append(swept, [id |-> s, voice |-> voice,
                                              unused |-> 0])]
                  /\ file' = mem'[p]
                  /\ got' = [session |-> s, kind |-> "new", voice |-> voice,
                             swept |-> Cardinality(Swept(p))]
                  /\ assigned' = [x \in Sessions |->
                                    IF x = s THEN voice
                                    ELSE IF x \in Swept(p) THEN "none"
                                    ELSE assigned[x]]
    /\ UNCHANGED up
    /\ RegistryOnly

\* get_active_sessions_info: the sweep, saved when it removed something
ActiveSessionsInfo(p) ==
    /\ up[p]
    /\ mem' = [mem EXCEPT ![p] = CleanupExpired(mem[p])]
    /\ file' = IF Swept(p) # {} THEN mem'[p] ELSE file
    /\ assigned' = [x \in Sessions |->
                      IF x \in Swept(p) THEN "none" ELSE assigned[x]]
    /\ UNCHANGED up
    /\ got' = NoLookup
    /\ RegistryOnly

\* clear_session(session_id)
ClearSession(p) ==
    /\ up[p]
    /\ \E s \in Ids(mem[p]) :
        /\ mem' = [mem EXCEPT ![p] = Without(mem[p], s)]
        /\ file' = mem'[p]
        /\ assigned' = [assigned EXCEPT ![s] = "none"]
    /\ UNCHANGED up
    /\ got' = NoLookup
    /\ RegistryOnly

\* clear_all_sessions
ClearAllSessions(p) ==
    /\ up[p]
    /\ mem' = [mem EXCEPT ![p] = <<>>]
    /\ file' = <<>>
    /\ assigned' = [x \in Sessions |-> "none"]
    /\ UNCHANGED up
    /\ got' = NoLookup
    /\ RegistryOnly

\* a tick older; records past the expiry window are all alike
Older(tbl) ==
    [i \in DOMAIN tbl |->
        IF Expired(tbl[i]) THEN tbl[i] ELSE [tbl[i] EXCEPT !.unused = @ + 1]]

\* a tick of the clock: time.time() moves on for every record
ClockTick ==
    /\ \E i \in DOMAIN file : ~Expired(file[i])
    /\ file' = Older(file)
    /\ mem' = [p \in RegProcs |-> Older(mem[p])]
    /\ UNCHANGED <<up, assigned>>
    /\ got' = NoLookup
    /\ RegistryOnly

InitRegistry == DaemonIdle /\ QueueIdle /\ RegistryIdle /\ DedupIdle
    /\ LockIdle /\ ConsumerIdle /\ ReloadIdle

RegNext(p) ==
    \/ RegStart(p)
    \/ RegExit(p)
    \/ Lookup(p)
    \/ ActiveSessionsInfo(p)
    \/ ClearSession(p)
    \/ ClearAllSessions(p)

NextRegistry == RegNext(1) \/ ClockTick

SpecRegistry == InitRegistry /\ [][NextRegistry]_vars

\* hook processes, each building its own SessionVoiceManager for one or more
\* lookups; they live for a fraction of a second, the clock stands still
HookNext(p) ==
    \/ RegStart(p)
    \/ RegExit(p)
    \/ Lookup(p)

NextShared == \E p \in RegProcs : HookNext(p)

SpecShared == InitRegistry /\ [][NextShared]_vars

\* a worker is kept running (every hook calls ensure_running) and its loop and
\* the clock keep moving
\* ----------------------------------------- a handler and its deduplicator
DedupOnly ==
    UNCHANGED <<dvars, bvars, wvars, hvars, xvars, svars, kvars, cvars,
                rvars>>

\* MessageDeduplicator.is_duplicate(message)
IsDuplicate(t) ==
    /\ IF t = 0
       THEN /\ dres' = [text |-> t, dup |-> FALSE, seen |-> -1]
            /\ UNCHANGED <<recent, lastText, heard>>
       ELSE IF t = lastText
       THEN /\ dres' = [text |-> t, dup |-> TRUE, seen |-> heard[t]]
            /\ UNCHANGED <<recent, lastText, heard>>
       ELSE LET kept == Fresh(recent)
                hit == \E i \in 1..Len(kept) : kept[i].hash = Md5(t)
            IN  /\ dres' = [text |-> t, dup |-> hit, seen |-> heard[t]]
                /\ IF hit
                   THEN /\ recent' = kept
                        /\ UNCHANGED <<lastText, heard>>
                   ELSE /\ recent' = Append(kept, [hash |-> Md5(t), age |-> 0])
                        /\ lastText' = t
                        /\ heard' = [heard EXCEPT ![t] = 0]
    /\ DedupOnly

\* MessageDeduplicator.clear_cache()
ClearCache ==
    /\ recent' = <<>>
    /\ lastText' = 0
    /\ heard' = [t \in 1..NTexts |-> -1]
    /\ dres' = NoCheck
    /\ DedupOnly

\* time.time() moves on by one tick
DedupTick ==
    /\ \/ \E i \in 1..Len(recent) : recent[i].age < CacheDuration
       \/ \E t \in 1..NTexts : heard[t] \in 0..(CacheDuration - 1)
    /\ recent' = [i \in 1..Len(recent) |->
                    [recent[i] EXCEPT !.age = SeqMin(@ + 1, CacheDuration)]]
    /\ heard' = [t \in 1..NTexts |->
                   IF heard[t] = -1 THEN -1
                   ELSE SeqMin(heard[t] + 1, CacheDuration)]
    /\ UNCHANGED <<lastText, dres>>
    /\ DedupOnly

NextDedup ==
    \/ \E t \in Texts : IsDuplicate(t)
    \/ ClearCache
    \/ DedupTick

SpecDedup == InitRegistry /\ [][NextDedup]_vars

\* ------------------------------------- the synchronous path and its lock
LockOnly ==
    UNCHANGED <<dvars, bvars, wvars, hvars, xvars, svars,
                recent, lastText, heard, dres, cvars, rvars>>

\* handler.speak with use_async off enters acquire(): start_time is taken
\* and the lock file opened
SpeakSync(p) ==
    /\ lpc[p] = "idle"
    /\ lpc' = [lpc EXCEPT ![p] = "trying"]
    /\ waited' = [waited EXCEPT ![p] = 0]
    /\ lres' = [lres EXCEPT ![p] = "none"]
    /\ UNCHANGED <<speechLock, nap, lastSpoken>>
    /\ LockOnly

\* one turn of the while loop of acquire(): the lock is taken; or it is held
\* and the deadline has passed, TimeoutError leaves acquire() through its
\* finally clause and handler.speak logs a warning; or it is held and the
\* loop sleeps 0.1 s (no step here, the clock moves on)
TryLock(p) ==
    /\ lpc[p] = "trying"
    /\ IF LockFile(speechLock, p)
       THEN /\ speechLock' = p
            /\ lpc' = [lpc EXCEPT ![p] = "spacing"]
            /\ UNCHANGED lres
       ELSE /\ waited[p] > LockTimeout
            /\ speechLock' = UnlockFile(speechLock, p)
            /\ lpc' = [lpc EXCEPT ![p] = "idle"]
            /\ lres' = [lres EXCEPT ![p] = "skipped"]
    /\ UNCHANGED <<waited, nap, lastSpoken>>
    /\ LockOnly

\* the body started without a look at the last-speech file
CheckSpacingSkipped(p) ==
    /\ lpc[p] = "spacing"
    /\ lpc' = [lpc EXCEPT ![p] = "body"]
    /\ UNCHANGED <<speechLock, waited, nap, lastSpoken, lres>>
    /\ LockOnly

\* the last-speech file is read under the lock and the rest of min_spacing
\* is slept
CheckSpacing(p) ==
    /\ lpc[p] = "spacing"
    /\ IF lastSpoken # -1 /\ lastSpoken < MinSpacing
       THEN /\ nap' = [nap EXCEPT ![p] = MinSpacing - lastSpoken]
            /\ lpc' = [lpc EXCEPT ![p] = "napping"]
       ELSE /\ lpc' = [lpc EXCEPT ![p] = "body"]
            /\ UNCHANGED nap
    /\ UNCHANGED <<speechLock, waited, lastSpoken, lres>>
    /\ LockOnly

\* time.sleep(wait_time) is over: the body of the with statement starts
NapOver(p) ==
    /\ lpc[p] = "napping"
    /\ nap[p] = 0
    /\ lpc' = [lpc EXCEPT ![p] = "body"]
    /\ UNCHANGED <<speechLock, waited, nap, lastSpoken, lres>>
    /\ LockOnly

\* the body (tts_provider.speak and save_state) returns: the stamp is
\* written, the finally clause unlocks
BodyReturns(p) ==
    /\ lpc[p] = "body"
    /\ lastSpoken' = 0
    /\ speechLock' = UnlockFile(speechLock, p)
    /\ lpc' = [lpc EXCEPT ![p] = "idle"]
    /\ lres' = [lres EXCEPT ![p] = "spoke"]
    /\ UNCHANGED <<waited, nap>>
    /\ LockOnly

\* the body raises and the lock is not given up
BodyRaisesKeepsLock(p) ==
    /\ lpc[p] = "body"
    /\ lpc' = [lpc EXCEPT ![p] = "idle"]
    /\ lres' = [lres EXCEPT ![p] = "raised"]
    /\ UNCHANGED <<speechLock, waited, nap, lastSpoken>>
    /\ LockOnly

\* the body raises: no stamp is written, the finally clause unlocks and the
\* exception leaves handler.speak
BodyRaises(p) ==
    /\ lpc[p] = "body"
    /\ speechLock' = UnlockFile(speechLock, p)
    /\ lpc' = [lpc EXCEPT ![p] = "idle"]
    /\ lres' = [lres EXCEPT ![p] = "raised"]
    /\ UNCHANGED <<waited, nap, lastSpoken>>
    /\ LockOnly

\* time.time() moves on by one tick
LockTick ==
    /\ \/ \E p \in SyncProcs : lpc[p] = "trying" /\ waited[p] <= LockTimeout
       \/ \E p \in SyncProcs : lpc[p] = "napping" /\ nap[p] > 0
       \/ lastSpoken \in 0..(MinSpacing - 1)
    /\ waited' = [p \in SyncProcs |->
                    IF lpc[p] = "trying"
                    THEN SeqMin(waited[p] + 1, LockTimeout + 1)
                    ELSE waited[p]]
    /\ nap' = [p \in SyncProcs |-> IF nap[p] > 0 THEN nap[p] - 1 ELSE 0]
    /\ lastSpoken' = IF lastSpoken = -1 THEN -1
                     ELSE SeqMin(lastSpoken + 1, MinSpacing)
    /\ UNCHANGED <<speechLock, lpc, lres>>
    /\ LockOnly

SyncNext(p) ==
    \/ SpeakSync(p)
    \/ TryLock(p)
    \/ CheckSpacing(p)
    \/ NapOver(p)
    \/ BodyReturns(p)
    \/ BodyRaises(p)

NextLock ==
    \/ \E p \in SyncProcs : SyncNext(p)
    \/ LockTick

SpecLock == InitRegistry /\ [][NextLock]_vars

\* ------------------------------- start / stop and the loop threads
ConsumerOnly ==
    UNCHANGED <<dvars, svars, xvars, hvars, total, held, wpc, callback, cur,
                outcome, wcrashes, recent, lastText, heard, dres, kvars,
                rvars>>

\* QueueConsumer.start()
ConsumerStart ==
    /\ mpc = "idle"
    /\ IF running
       THEN /\ mret' = "already"
            /\ UNCHANGED <<running, thread, tpc>>
       ELSE /\ \E t \in Threads :
                 /\ tpc[t] = "none"
                 /\ \A u \in Threads : u < t => tpc[u] # "none"
                 /\ thread' = t
                 /\ tpc' = [tpc EXCEPT ![t] = "loop"]
            /\ running' = TRUE
            /\ mret' = "started"
    /\ UNCHANGED <<rows, tcur, mpc, tnap, spoke>>
    /\ ConsumerOnly

\* QueueConsumer.stop(wait, timeout), up to self._running = False
ConsumerStop ==
    /\ mpc = "idle"
    /\ IF ~running
       THEN /\ mret' = "not_running"
            /\ UNCHANGED <<running, mpc>>
       ELSE /\ Len(rows) < MaxSent
            /\ running' = FALSE
            /\ mpc' \in {"send_wait", "send_nowait"}
            /\ mret' = "none"
    /\ UNCHANGED <<rows, tpc, tcur, thread, tnap, spoke>>
    /\ ConsumerOnly

\* stop(): self.broker.send_shutdown(); without wait stop() returns
StopSend ==
    /\ mpc \in {"send_wait", "send_nowait"}
    /\ rows' = BrokerEnqueue(Shared,
                    Envelope("shutdown", ShutdownPriority, 0, -1)).rows
    /\ IF mpc = "send_wait" /\ thread # 0
       THEN mpc' = "join" /\ mret' = mret
       ELSE mpc' = "idle" /\ mret' = "stopped"
    /\ UNCHANGED <<running, tpc, tcur, thread, tnap, spoke>>
    /\ ConsumerOnly

\* stop(): self._thread.join(timeout) returns, the thread having ended
JoinDone ==
    /\ mpc = "join"
    /\ ~IsAlive(thread)
    /\ mpc' = "idle"
    /\ mret' = "stopped"
    /\ UNCHANGED <<rows, running, tpc, tcur, thread, tnap, spoke>>
    /\ ConsumerOnly

\* stop(): self._thread.join(timeout) returns after timeout seconds, the
\* thread being in a sleep or a Speech Sink call that takes longer
JoinTimeout ==
    /\ mpc = "join"
    /\ tpc[thread] \in {"nap", "busy"}
    /\ mpc' = "idle"
    /\ mret' = "stopped"
    /\ UNCHANGED <<rows, running, tpc, tcur, thread, tnap, spoke>>
    /\ ConsumerOnly

\* QueueConsumer.is_running()
ConsumerAsk ==
    /\ mpc = "idle"
    /\ mret' = IF ConsumerIsRunning THEN "is_running" ELSE "is_not_running"
    /\ mret' # mret
    /\ UNCHANGED <<rows, running, tpc, tcur, thread, mpc, tnap, spoke>>
    /\ ConsumerOnly

\* a hook process enqueues a speak envelope, a slot of the run being kept
\* for the Shutdown envelope of a stop()
ConsumerFeed ==
    /\ Len(rows) < MaxSent - 1
    /\ ProducerSpeak

\* _consumer_loop of thread t: while self._running
TLoopCheck(t) ==
    /\ tpc[t] = "loop"
    /\ tpc' = [tpc EXCEPT ![t] = IF running THEN "deq" ELSE "ended"]
    /\ UNCHANGED <<rows, running, tcur, thread, mpc, mret, tnap, spoke>>
    /\ ConsumerOnly

\* _consumer_loop of thread t: message = self.broker.dequeue(timeout=0.5)
TDequeue(t) ==
    /\ tpc[t] = "deq"
    /\ IF FirstReady(rows) # 0
       THEN /\ rows' = BrokerDequeue(Shared).rows
            /\ tcur' = [tcur EXCEPT ![t] = FirstReady(rows)]
            /\ tpc' = [tpc EXCEPT ![t] = "got"]
       ELSE /\ tpc' = [tpc EXCEPT ![t] = "loop"]
            /\ UNCHANGED <<rows, tcur>>
    /\ UNCHANGED <<running, thread, mpc, mret, tnap, spoke>>
    /\ ConsumerOnly

\* _consumer_loop of thread t: SHUTDOWN: ack and break
TShutdown(t) ==
    /\ tpc[t] = "got"
    /\ rows[tcur[t]].message_type = "shutdown"
    /\ rows' = BrokerAck(Shared, tcur[t]).rows
    /\ tcur' = [tcur EXCEPT ![t] = 0]
    /\ tpc' = [tpc EXCEPT ![t] = "ended"]
    /\ UNCHANGED <<running, thread, mpc, mret, tnap, spoke>>
    /\ ConsumerOnly

\* _consumer_loop of thread t: too soon to retry: nack and continue
TBackoff(t) ==
    /\ tpc[t] = "got"
    /\ rows[tcur[t]].message_type # "shutdown"
    /\ TooSoon(rows[tcur[t]])
    /\ rows' = BrokerNack(Shared, tcur[t], rows[tcur[t]].retry_count,
                          rows[tcur[t]].last_retry_age).rows
    /\ tcur' = [tcur EXCEPT ![t] = 0]
    /\ tpc' = [tpc EXCEPT ![t] = "loop"]
    /\ UNCHANGED <<running, thread, mpc, mret, tnap, spoke>>
    /\ ConsumerOnly

\* _process_message in thread t: the rest of min_speech_delay since
\* _last_speech_time is slept
TProcess(t) ==
    /\ tpc[t] = "got"
    /\ rows[tcur[t]].message_type # "shutdown"
    /\ ~TooSoon(rows[tcur[t]])
    /\ tpc' = [tpc EXCEPT ![t] = "nap"]
    /\ tnap' = [tnap EXCEPT ![t] = IF callback /\ spoke < MinSpeechDelay
                                   THEN MinSpeechDelay - spoke ELSE 0]
    /\ UNCHANGED <<rows, running, tcur, thread, mpc, mret, spoke>>
    /\ ConsumerOnly

\* _process_message in thread t: the sleep is over, speak_callback is called
TSpeak(t) ==
    /\ tpc[t] = "nap"
    /\ tnap[t] = 0
    /\ tpc' = [tpc EXCEPT ![t] = "busy"]
    /\ UNCHANGED <<rows, running, tcur, thread, mpc, mret, tnap, spoke>>
    /\ ConsumerOnly

\* _consumer_loop of thread t: the call is over and _last_speech_time set
\* unless it raised; ack on success, nack for a retry, ack to drop
TDone(t) ==
    /\ tpc[t] = "busy"
    /\ \E o \in IF callback THEN {"ok", "false", "raise"} ELSE {"no_callback"} :
          /\ rows' = IF \/ Success(o)
                        \/ ~ShouldRetry(rows[tcur[t]].retry_count, Reason(o))
                     THEN BrokerAck(Shared, tcur[t]).rows
                     ELSE BrokerNack(Shared, tcur[t],
                                     rows[tcur[t]].retry_count + 1, 0).rows
          /\ spoke' = IF Success(o) THEN 0 ELSE spoke
    /\ tcur' = [tcur EXCEPT ![t] = 0]
    /\ tpc' = [tpc EXCEPT ![t] = "loop"]
    /\ UNCHANGED <<running, thread, mpc, mret, tnap>>
    /\ ConsumerOnly

\* half a second passes for the consumer and the store
ConsumerTick ==
    /\ \/ Aging(rows) # {}
       \/ spoke < MinSpeechDelay
       \/ \E t \in Threads : tnap[t] > 0
    /\ rows' = [r \in RowIds(rows) |->
                  IF r \in Aging(rows)
                     THEN [rows[r] EXCEPT !.last_retry_age = @ + 1]
                     ELSE rows[r]]
    /\ spoke' = SeqMin(spoke + 1, MinSpeechDelay)
    /\ tnap' = [t \in Threads |-> IF tnap[t] > 0 THEN tnap[t] - 1 ELSE 0]
    /\ UNCHANGED <<running, tpc, tcur, thread, mpc, mret>>
    /\ ConsumerOnly

ThreadNext(t) ==
    \/ TLoopCheck(t)
    \/ TDequeue(t)
    \/ TShutdown(t)
    \/ TBackoff(t)
    \/ TProcess(t)
    \/ TSpeak(t)
    \/ TDone(t)

NextConsumer ==
    \/ ConsumerStart
    \/ ConsumerStop
    \/ StopSend
    \/ JoinDone
    \/ JoinTimeout
    \/ ConsumerAsk
    \/ ConsumerFeed
    \/ \E t \in Threads : ThreadNext(t)
    \/ ConsumerTick

SpecConsumer == Init /\ [][NextConsumer]_vars

\* the operating system schedules every thread, a stop() under way goes on
\* and time passes
SpecConsumerFair ==
    /\ SpecConsumer
    /\ \A t \in Threads : WF_vars(ThreadNext(t))
    /\ WF_vars(StopSend)
    /\ WF_vars(JoinDone)
    /\ WF_vars(ConsumerTick)

\* ------------------------------------------------ hot reload, dev mode
ReloadOnly ==
    UNCHANGED <<lockHolder, spawnErrors, pc, op, ret, localPid,
                bvars, wvars, hvars, xvars, svars,
                recent, lastText, heard, dres, kvars, cvars>>

\* worker subprocesses of the reloader for which poll() is None
Workers == spawned \cap alive

\* a timer thread is inside AutoReloader._restart_daemon
Restarting == \E k \in Timers : tm[k] \in {"restart", "wait", "spawn"}

\* the pid record after the finally clause of run_worker has removed it
RunWorkerFinallyRemovesPid(f) == 0

\* the pid record after the finally clause of run_worker: the clause calls
\* daemon._remove_pid(), run_worker binds no name daemon and the module has
\* no global of that name, so the call raises NameError and removes nothing
RunWorkerFinally(f) == f

\* start_dev with the pid lock free and no daemon running, up to
\* Popen([..., '--dev-background'])
DevStart ==
    /\ dev.pc = "idle"
    /\ ~IsRunning
    /\ nextPid <= MaxReloadPids
    /\ dev' = [pc |-> "spawned", pid |-> nextPid]
    /\ alive' = alive \cup {nextPid}
    /\ nextPid' = nextPid + 1
    /\ sup' = "booting"
    /\ UNCHANGED <<pidFile, signalled, crashes, obs, handle, spawned, tm, tw,
                   tleft, timer, pending, quiet, calls>>
    /\ ReloadOnly

\* start_dev: sleep(0.5); if _is_process_running(process.pid): _write_pid
DevCheck ==
    /\ dev.pc = "spawned"
    /\ IF IsProcessRunning(dev.pid)
       THEN /\ pidFile' = dev.pid
            /\ dev' = [dev EXCEPT !.pc = "true"]
       ELSE /\ pidFile' = pidFile
            /\ dev' = [dev EXCEPT !.pc = "false"]
    /\ UNCHANGED <<alive, signalled, nextPid, crashes, obs, sup, handle,
                   spawned, tm, tw, tleft, timer, pending, quiet, calls>>
    /\ ReloadOnly

\* AutoReloader.start_background: the observer is started and the initial
\* worker spawned by start_worker_subprocess (Popen, sleep(0.3), liveness
\* test); without a worker the method returns and the supervisor exits
SupBoot ==
    /\ sup = "booting"
    /\ nextPid <= MaxReloadPids
    /\ \E ok \in BOOLEAN :
          /\ spawned' = spawned \cup {nextPid}
          /\ nextPid' = nextPid + 1
          /\ IF ok
             THEN /\ alive' = alive \cup {nextPid}
                  /\ handle' = nextPid
                  /\ sup' = "watching"
             ELSE /\ alive' = alive \ {dev.pid}
                  /\ handle' = 0
                  /\ sup' = "exited"
    /\ UNCHANGED <<pidFile, signalled, crashes, dev, obs, tm, tw, tleft,
                   timer, pending, quiet, calls>>
    /\ ReloadOnly

\* DebouncedEventHandler.on_modified for a .py file, from `with self._lock`
\* to the time stamp
OnModified ==
    /\ sup = "watching"
    /\ obs = "idle"
    /\ \E k \in Timers : tm[k] = "none"
    /\ obs' = "in"
    /\ pending' = TRUE
    /\ quiet' = 0
    /\ calls' = IF quiet >= Debounce THEN 0 ELSE calls
    /\ UNCHANGED <<pidFile, alive, signalled, nextPid, crashes, dev, sup,
                   handle, spawned, tm, tw, tleft, timer>>
    /\ ReloadOnly

\* on_modified, the rest of the block: the timer started last is cancelled,
\* which stops it only if its function has not been called yet, and a new
\* Timer(debounce_seconds, _trigger_restart) is started
OnModifiedArm ==
    /\ obs = "in"
    /\ LET k == CHOOSE j \in Timers :
                    tm[j] = "none" /\ \A i \in Timers : tm[i] = "none" => j <= i
       IN  /\ tm' = [j \in Timers |->
                        IF j = k THEN "armed"
                        ELSE IF j = timer /\ tm[j] = "armed" THEN "cancelled"
                        ELSE tm[j]]
           /\ tleft' = [tleft EXCEPT ![k] = Debounce]
           /\ timer' = k
    /\ obs' = "idle"
    /\ UNCHANGED <<pidFile, alive, signalled, nextPid, crashes, dev, sup,
                   handle, spawned, tw, pending, quiet, calls>>
    /\ ReloadOnly

\* threading.Timer.run: the interval is over and finished is not set, the
\* thread calls _trigger_restart
TimerFires(k) ==
    /\ tm[k] = "armed"
    /\ tleft[k] = 0
    /\ tm' = [tm EXCEPT ![k] = "fired"]
    /\ UNCHANGED <<pidFile, alive, signalled, nextPid, crashes, dev, obs, sup,
                   handle, spawned, tw, tleft, timer, pending, quiet, calls>>
    /\ ReloadOnly

\* DebouncedEventHandler._trigger_restart: under _lock, return if nothing is
\* pending, else clear the pending files; then self.callback()
Trigger(k) ==
    /\ tm[k] = "fired"
    /\ obs = "idle"
    /\ IF pending
       THEN /\ pending' = FALSE
            /\ tm' = [tm EXCEPT ![k] = "restart"]
            /\ calls' = SeqMin(calls + 1, 2)
       ELSE /\ tm' = [tm EXCEPT ![k] = "done"]
            /\ UNCHANGED <<pending, calls>>
    /\ UNCHANGED <<pidFile, alive, signalled, nextPid, crashes, dev, obs, sup,
                   handle, spawned, tw, tleft, timer, quiet>>
    /\ ReloadOnly

\* _restart_daemon: if self._worker_process and poll() is None: terminate()
RestartBegin(k) ==
    /\ tm[k] = "restart"
    /\ IF handle # 0 /\ handle \in alive
       THEN /\ signalled' = signalled \cup {handle}
            /\ tw' = [tw EXCEPT ![k] = handle]
            /\ tm' = [tm EXCEPT ![k] = "wait"]
       ELSE /\ tm' = [tm EXCEPT ![k] = "spawn"]
            /\ UNCHANGED <<signalled, tw>>
    /\ UNCHANGED <<pidFile, alive, nextPid, crashes, dev, obs, sup, handle,
                   spawned, tleft, timer, pending, quiet, calls>>
    /\ ReloadOnly

\* _restart_daemon: wait(timeout=5) returns, the worker has exited
WaitReturns(k) ==
    /\ tm[k] = "wait"
    /\ tw[k] \notin alive
    /\ tm' = [tm EXCEPT ![k] = "spawn"]
    /\ UNCHANGED <<pidFile, alive, signalled, nextPid, crashes, dev, obs, sup,
                   handle, spawned, tw, tleft, timer, pending, quiet, calls>>
    /\ ReloadOnly

\* _restart_daemon: wait(timeout=5) raises TimeoutExpired, the worker is
\* still there; the except clause logs and the method returns
WaitTimeout(k) ==
    /\ tm[k] = "wait"
    /\ tw[k] \in alive
    /\ tm' = [tm EXCEPT ![k] = "done"]
    /\ UNCHANGED <<pidFile, alive, signalled, nextPid, crashes, dev, obs, sup,
                   handle, spawned, tw, tleft, timer, pending, quiet, calls>>
    /\ ReloadOnly

\* _restart_daemon: self._worker_process = start_worker_subprocess(), which
\* is the Popen object, or None if the process is gone after sleep(0.3)
RestartSpawn(k) ==
    /\ tm[k] = "spawn"
    /\ nextPid <= MaxReloadPids
    /\ \E ok \in BOOLEAN :
          /\ alive' = IF ok THEN alive \cup {nextPid} ELSE alive
          /\ handle' = IF ok THEN nextPid ELSE 0
    /\ spawned' = spawned \cup {nextPid}
    /\ nextPid' = nextPid + 1
    /\ tm' = [tm EXCEPT ![k] = "done"]
    /\ UNCHANGED <<pidFile, signalled, crashes, dev, obs, sup, tw, tleft,
                   timer, pending, quiet, calls>>
    /\ ReloadOnly

\* a worker that received SIGTERM: handle_signal stops its consumer, the loop
\* ends, the finally clause of run_worker runs and the process exits
WorkerExits(w) ==
    /\ w \in Workers
    /\ w \in signalled
    /\ alive' = alive \ {w}
    /\ pidFile' = RunWorkerFinally(pidFile)
    /\ UNCHANGED <<signalled, nextPid, crashes, rvars>>
    /\ ReloadOnly

\* a worker subprocess is killed from outside
WorkerDies(w) ==
    /\ w \in Workers
    /\ crashes < MaxCrashes
    /\ alive' = alive \ {w}
    /\ crashes' = crashes + 1
    /\ UNCHANGED <<pidFile, signalled, nextPid, rvars>>
    /\ ReloadOnly

\* time passes; a timer whose interval is over fires before more of it does
ReloadTick ==
    /\ \E k \in Timers : tm[k] = "armed"
    /\ \A k \in Timers : tm[k] = "armed" => tleft[k] > 0
    /\ tleft' = [k \in Timers |->
                    IF tm[k] = "armed" THEN tleft[k] - 1 ELSE tleft[k]]
    /\ quiet' = SeqMin(quiet + 1, Debounce)
    /\ UNCHANGED <<pidFile, alive, signalled, nextPid, crashes, dev, obs, sup,
                   handle, spawned, tm, tw, timer, pending, calls>>
    /\ ReloadOnly

TimerNext(k) ==
    \/ TimerFires(k)
    \/ Trigger(k)
    \/ RestartBegin(k)
    \/ WaitReturns(k)
    \/ WaitTimeout(k)
    \/ RestartSpawn(k)

NextReload ==
    \/ DevStart
    \/ DevCheck
    \/ SupBoot
    \/ OnModified
    \/ OnModifiedArm
    \/ \E k \in Timers : TimerNext(k)
    \/ \E w \in 1..MaxReloadPids : WorkerExits(w)
    \/ \E w \in 1..MaxReloadPids : WorkerDies(w)
    \/ ReloadTick

SpecReload == Init /\ [][NextReload]_vars

SpecFair == Spec /\ WF_vars(WorkerNext) /\ WF_vars(Tick)

\* ---------------------------------------------------------------- claims
\* (daemon manager, checked under SpecDaemon)

\* callers that have come back from their call
Returned(p) == pc[p] \in {"returned", "exited"}

\* C1: when every caller invoked ensure_running() with no worker alive, no
\* worker died and no spawn failed, then once all calls are back exactly one
\* worker is alive and every call returned True.
C1_AllEnsureCallsSucceed ==
    ((\A p \in Procs : op[p] = "ensure" /\ Returned(p))
        /\ crashes = 0 /\ ~spawnErrors)
    => (Cardinality(alive) = 1 /\ \A p \in Procs : ret[p] = "true")

\* C9: under any interleaving of ensure_running, start, stop and restart at
\* most one daemon process is alive.
C9_AtMostOneWorkerAlive == Cardinality(alive) <= 1

\* C10: a call of ensure_running(), start() or start_dev() that has returned
\* does not hold the startup lock any more.
C10_LockReleasedOnReturn ==
    \A p \in Procs :
        (pc[p] = "returned" /\ op[p] \in {"ensure", "start", "start_dev"})
            => lockHolder # p

\* C11: at the step where stop() returns, no pid record exists, whether the
\* process went away after the signal, outlived the polling, or was already
\* dead when the signal was sent.
C11_StopLeavesNoPidRecord ==
    [][\A p \in Procs :
          (op[p] = "stop" /\ pc[p] \in {"t_read", "t_kill", "t_remove"}
             /\ pc'[p] = "returned")
              => pidFile' = 0]_vars


\* a caller is inside ensure_running / start / start_dev
Starting(q) ==
    pc[q] \in {"e_acquire", "e_wait", "e_clean", "e_check", "e_release",
               "s_acquire", "s_lost", "s_check", "s_spawn", "s_verify",
               "s_release"}

\* C12: ensure_running() called while the pid record names a dead process and
\* no other caller is starting the daemon goes on to discard the stale record
\* (and from there to the spawn); it is never turned away.
C12_StalePidSelfHealing ==
    [][\A p \in Procs :
          (/\ pc[p] = "e_acquire"
           /\ pidFile # 0 /\ ~IsProcessRunning(pidFile)
           /\ \A q \in Procs \ {p} : ~Starting(q)
           /\ pc'[p] # pc[p])
              => pc'[p] = "e_clean"]_vars

\* (durable delivery, checked under Spec and SpecFair)

\* C2 as stated: no envelope gets more than one successful Speech Sink call.
C2_AtMostOnce == \A r \in RowIds(rows) : okCount[r] <= 1

\* C2 as amended: with one worker consuming the store, an envelope gets a
\* further successful Speech Sink call only after the worker crashed between
\* a successful call and its ack; each such crash allows one redelivery.
C2_OnceUnlessAckLost == \A r \in RowIds(rows) : okCount[r] <= 1 + lostAcks[r]

\* an envelope spoken twice, the ack of the first call lost in a crash
C2_Redelivered ==
    \E r \in RowIds(rows) :
        okCount[r] = 2 /\ lostAcks[r] = 1 /\ rows[r].status = "acked"

\* C3: with a worker kept running and fair scheduling every envelope in the
\* store is eventually removed (acked).
C3_EveryEnvelopeRemoved ==
    \A r \in 1..MaxRows :
        (Len(rows) >= r) ~> (Len(rows) >= r /\ rows[r].status = "acked")

\* C4: an accepted envelope stays dequeuable until it is acked: a row that is
\* out (unack) is in the hands of the live worker, or no worker is up and the
\* next broker opened on the store makes it ready again; every other row that
\* is not acked is ready.
C4_DurableUntilAcked ==
    \A r \in RowIds(rows) :
        rows[r].status = "unack" => (wpc = "down" \/ cur = r)

\* an envelope dequeued again after the worker crashed while holding it
C4_DequeuedAfterCrash ==
    \E r \in RowIds(rows) :
        lostAcks[r] >= 1 /\ cur = r /\ wpc = "got" /\ rows[r].status = "unack"

\* C5: an envelope nacked max_retries times after failed attempts is acked,
\* not put back, the next time the consumer lets go of it.
C5_CeilingEnforced ==
    [][(cur # 0 /\ nacks[cur] >= MaxRetries /\ cur' = 0 /\ wpc' # "down")
         => rows'[cur].status = "acked"]_vars

\* C8: once a Shutdown envelope was sent, no envelope that was pending at that
\* moment is passed to the Speech Sink while the Shutdown envelope is in the
\* store.
C8_ShutdownPreemptsBacklog ==
    [][(wpc = "got" /\ wpc' = "done" /\ outcome' # "no_callback"
          /\ \E s \in RowIds(rows) :
                rows[s].message_type = "shutdown" /\ rows[s].status # "acked")
         => cur \notin backlog]_vars

\* (broker contract, checked under SpecBroker)

\* C6: dequeue takes the pending envelope of highest priority, the one
\* enqueued first among equals.
C6_PriorityOrder ==
    [][\A r \in RowIds(rows) :
          (rows[r].status = "ready" /\ rows'[r].status = "unack")
              => r = HighestPriorityFirst(rows)]_vars

\* C7 as stated: size() counts every envelope that is not acked, those
\* dequeued and not yet acked or nacked included.
C7_SizeCountsUnacked ==
    BrokerSize(Client) = Cardinality({r \in RowIds(rows) : rows[r].status # "acked"})

\* C7 as amended: for the one broker instance using the store, size() is the
\* number of pending envelopes: enqueued or nacked, and not dequeued since.
C7_SizeCountsPending ==
    BrokerSize(Client) = Cardinality(WithStatus(rows, "ready"))

\* one envelope dequeued and not yet acked, another still pending
C7_OneOutOnePending ==
    /\ Cardinality(held) = 1
    /\ Cardinality(WithStatus(rows, "ready")) = 1
    /\ BrokerSize(Client) = 1

\* (store out of order, checked under SpecOutage)

\* C13: a dequeue that finds the store empty, unavailable or failing
\* returns none after the timeout has passed, and leaves the store as it was.
C13_NoneAfterTimeout ==
    [][(last'.op = "dequeue" /\ last'.cause # "served")
         => (last'.ret = "none" /\ rows' = rows /\ last'.waited)]_vars

\* C14: an enqueue that finds the store unavailable or whose put fails returns
\* false and leaves the store as it was; one that returns true has stored the
\* envelope.
C14_EnqueueFailureDrops ==
    [][(last'.op = "enqueue")
         => IF last'.cause = "stored"
               THEN last'.ret = "true" /\ Len(rows') = Len(rows) + 1
               ELSE last'.ret = "false" /\ rows' = rows]_vars

\* an enqueue refused by a broker without a store, envelopes being in the file
C14_RefusedUnavailable ==
    /\ last.op = "enqueue"
    /\ last.cause = "unavailable"
    /\ last.ret = "false"
    /\ Len(rows) >= 1

\* (clear_queue, checked under SpecClear)

\* C15: when clear_queue() returns nothing is pending, and no envelope that
\* was in the store at that moment is passed to the Speech Sink afterwards or
\* becomes pending again.
C15_ClearedStaysCleared ==
    [][/\ (cleared' # cleared => FirstReady(rows') = 0)
       /\ (wpc = "got" /\ wpc' = "done" /\ outcome' # "no_callback")
             => cur \notin cleared
       /\ \A r \in cleared \cap RowIds(rows) :
             rows[r].status = "acked" => rows'[r].status = "acked"]_vars

\* (session voice registry, checked under SpecRegistry and SpecShared)

\* the step gives session s its record
Assigns(s) == s \notin Ids(file) /\ s \in Ids(file')

\* the records of the persisted table that have not expired
Active == CleanupExpired(file)

\* C16: within one registry a session that has a voice receives that voice on
\* every later lookup, until its record is expired or cleared.
C16_VoiceIsSticky ==
    [][\A s \in Sessions :
          (assigned[s] # "none" /\ assigned'[s] # "none")
              => assigned'[s] = assigned[s]]_vars

\* a session looked up again, a tick or more after another session was used
\* last, and given the voice it had
C16_SameVoiceAgain ==
    /\ got.kind = "existing"
    /\ Len(file) >= 2
    /\ file[Len(file)].id = got.session
    /\ file[Len(file)].voice # file[1].voice
    /\ file[Len(file)].unused < file[1].unused
    /\ got.voice = file[Len(file)].voice

\* C17: with several processes looking up voices on the shared table no
\* assignment is lost: every session that was given a voice is in the
\* persisted table with that voice.
C17_NoAssignmentLost ==
    \A s \in Sessions :
        assigned[s] # "none"
            => (s \in Ids(file) /\ file[Pos(file, s)].voice = assigned[s])

\* C18 as stated: in every state two sessions that have not expired hold the
\* same voice only if every voice of the pool is held by such a session.
C18_NoSharingUnlessExhausted ==
    (\E i, j \in DOMAIN Active : i # j /\ Active[i].voice = Active[j].voice)
        => Pool \subseteq UsedVoices(Active)

\* C18 as amended: a session is given a voice that another session which has
\* not expired holds only when, at that moment, every voice of the pool is
\* held by such a session.
C18_SharesOnlyWhenExhausted ==
    [][\A s \in Sessions :
          (/\ Assigns(s)
           /\ \E i \in DOMAIN file' :
                 /\ file'[i].id # s
                 /\ file'[i].voice = file'[Pos(file', s)].voice)
              => Pool \subseteq UsedVoices(Active)]_vars

\* the pool in use and one session more, sharing a voice
C18_SharedAtExhaustion ==
    /\ got.kind = "new"
    /\ Len(file) = NVoices + 1
    /\ \A i \in DOMAIN file : ~Expired(file[i])
    /\ \E i \in 1..NVoices : file[i].voice = file[NVoices + 1].voice

C20_ExpiredVoiceIsFreed ==
    [][\A s \in Sessions :
          Assigns(s)
              => /\ \A i \in DOMAIN file' : ~Expired(file'[i])
                 /\ Pool \ UsedVoices(Active) # {}
                       => file'[Pos(file', s)].voice \notin UsedVoices(Active)]_vars

\* a new session given the first voice, the record that held it swept
C20_TookExpiredVoice ==
    /\ got.kind = "new"
    /\ got.swept >= 1
    /\ got.voice = VOICES[1]
    /\ Len(file) = 1
    /\ file[1].id = got.session

\* C21: for a non-empty text X, is_duplicate(X) answers False when X was not
\* announced before, True when it is repeated within the cache window, and
\* False again once the cache window of its announcement has expired: the
\* answer is True exactly when X was announced less than cache_duration ago.
C21_DuplicateOnlyWithinWindow ==
    dres.text # 0 =>
        (dres.dup <=> (dres.seen # -1 /\ dres.seen < CacheDuration))

\* C22: at most one process at a time is inside the body of
\* SpeechLock.acquire(), and a process that is inside it holds the speech
\* lock, so Speech Sink calls on the synchronous path never overlap.
C22_OneSpeakerAtATime ==
    /\ Cardinality({p \in SyncProcs : lpc[p] \in {"napping", "body"}}) <= 1
    /\ \A p \in SyncProcs :
          lpc[p] \in {"spacing", "napping", "body"} => speechLock = p

\* C22 witness: one process is in the body while another has been trying to
\* get the lock for some time.
C22_WaitsForSpeaker ==
    \E p, q \in SyncProcs :
        /\ lpc[p] = "body"
        /\ lpc[q] = "trying"
        /\ waited[q] >= 1

\* C23: a process leaves the wait for the speech lock in one of two ways: it
\* gets the free lock, or, the lock being held and its timeout over, acquire()
\* raises TimeoutError, the body is not run, the holder keeps the lock, the
\* process does not hold it, and handler.speak returns having skipped the
\* announcement.
C23_TimeoutSkipsAnnouncement ==
    [][\A p \in SyncProcs :
          (lpc[p] = "trying" /\ lpc'[p] # "trying") =>
              IF speechLock = 0
              THEN speechLock' = p /\ lpc'[p] = "spacing"
              ELSE /\ waited[p] > LockTimeout
                   /\ lpc'[p] = "idle"
                   /\ lres'[p] = "skipped"
                   /\ speechLock' = speechLock
                   /\ speechLock' # p]_vars

\* C23 witness: a process has given up after its timeout while another one is
\* still speaking under the lock.
C23_GaveUpOnBusyLock ==
    \E p, q \in SyncProcs :
        /\ lres[p] = "skipped"
        /\ lpc[p] = "idle"
        /\ speechLock = q
        /\ q # p
        /\ lpc[q] = "body"

\* C24: after stop() is called on a running consumer its loop eventually
\* exits and is_running() is false: from the moment stop() has cleared
\* _running, a state is reached in which no loop thread of the consumer is
\* alive and is_running() answers False.
C24_StopEndsTheLoop ==
    (mpc \in {"send_wait", "send_nowait"}) ~>
        (~ConsumerIsRunning /\ \A t \in Threads : ~IsAlive(t))

\* the delay table of C25, in ticks of 0.5 s
C25_Delay(k) ==
    IF k = 1 THEN 1 ELSE IF k = 2 THEN 2 ELSE IF k = 3 THEN 4
    ELSE IF k = 4 THEN 10 ELSE 20

C26_ReadyEnvelopeOvertakes ==
    [][(/\ wpc = "got"
        /\ wpc' = "loop"
        /\ rows[cur].message_type # "shutdown"
        /\ TooSoon(rows[cur])
        /\ \E r \in RowIds(rows) :
              /\ r > cur
              /\ rows[r].status = "ready"
              /\ ~TooSoon(rows[r])) =>
           (/\ FirstReady(rows') # cur
            /\ ~TooSoon(rows'[FirstReady(rows')]))]_vars

\* C27: the retry_count stored with an envelope only increases, and after a
\* failed delivery attempt that was nacked the stored count, which the next
\* dequeue reads, is exactly one more than the count this dequeue read.
C27_RetryCountGrows ==
    [][/\ \A r \in RowIds(rows) : rows'[r].retry_count >= rows[r].retry_count
       /\ (wpc = "done" /\ wpc' = "loop" /\ nacks' # nacks) =>
              rows'[cur].retry_count = rows[cur].retry_count + 1]_vars

\* C28: an envelope is removed from the store once and stays removed, and the
\* consumer acks a non-Shutdown envelope only after a successful Speech Sink
\* call for it, or when its delivery failed and its retry_count has reached
\* max_retries.
C28_AckOnlyDeliveredOrExhausted ==
    [][/\ \A r \in RowIds(rows) :
             rows[r].status = "acked" => rows'[r].status = "acked"
       /\ (/\ wpc = "done"
           /\ rows[cur].message_type # "shutdown"
           /\ rows'[cur].status = "acked") =>
              \/ outcome = "ok"
              \/ /\ outcome \in {"false", "raise"}
                 /\ rows[cur].retry_count >= MaxRetries]_vars

\* C29: the consumer acks an envelope as delivered only if the Speech Sink
\* call for it reported success; when the Speech Sink reports failure, by a
\* false result or by raising, the envelope is nacked (its retry metadata
\* set on the message), or acked as dropped if its retry_count has reached
\* the ceiling.
C29_FailureIsRetriedOrDropped ==
    [][(wpc = "done" /\ wpc' = "loop" /\ outcome \in {"false", "raise"}) =>
          IF rows[cur].retry_count >= MaxRetries
          THEN rows'[cur].status = "acked"
          ELSE rows'[cur].status = "ready" /\ nacks' = Bump(nacks, cur)]_vars

\* C30: within one consumer every Speech Sink invocation starts at least
\* min_speech_delay after the previous successful Speech Sink invocation of
\* that consumer completed.
C30_SpeechIsSpaced ==
    [][\A t \in Threads :
          (tpc[t] = "nap" /\ tpc'[t] = "busy") => spoke >= MinSpeechDelay]_vars

\* C31: cancelling the daemon worker ends with the old process gone: at the
\* step where stop() returns True for a pid record it read, the process that
\* record named is no longer alive (it exited after the signal or was
\* force-killed after the bounded wait).
C31_StoppedWorkerIsGone ==
    [][\A p \in Procs :
          (/\ op[p] \in {"stop", "restart"}
           /\ pc[p] = "t_remove"
           /\ pc'[p] # "t_remove"
           /\ ret'[p] = "true")
              => localPid[p] \notin alive']_vars

\* C34: a caller that has left the SpeechLock.acquire() context, by normal
\* exit of the body, by an exception raised in the body or by the acquisition
\* timeout, does not hold the lock; with no caller inside the context the
\* lock is free, so that the next acquire() gets it.
C34_LockFreeAfterLeaving ==
    /\ \A p \in SyncProcs : lpc[p] = "idle" => speechLock # p
    /\ (\A p \in SyncProcs : lpc[p] \in {"idle", "trying"}) => speechLock = 0

\* C34 witness: a caller whose body raised has left the context and another
\* process has taken the lock since and is in its body.
C34_TakenAfterException ==
    \E p, q \in SyncProcs :
        /\ p # q
        /\ lres[p] = "raised"
        /\ lpc[p] = "idle"
        /\ speechLock = q
        /\ lpc[q] = "body"

\* C35: the body of acquire(min_spacing) starts only when there is no
\* last-spoken stamp or the stamp, written by the previous holder in whatever
\* process, is at least min_spacing old; and a body that completes normally
\* rewrites the stamp.
C35_BodyWaitsForSpacing ==
    [][\A p \in SyncProcs :
          /\ (lpc[p] # "body" /\ lpc'[p] = "body") =>
                 (lastSpoken = -1 \/ lastSpoken >= MinSpacing)
          /\ (lpc[p] = "body" /\ lres'[p] = "spoke") => lastSpoken' = 0]_vars

\* C35 witness: a process holds the lock and sleeps out the rest of the
\* spacing after the stamp another process wrote a moment ago.
C35_SleepsOutSpacing ==
    \E p, q \in SyncProcs :
        /\ p # q
        /\ lpc[p] = "napping"
        /\ nap[p] >= 1
        /\ speechLock = p
        /\ lres[q] = "spoke"
        /\ lastSpoken # -1
        /\ lastSpoken < MinSpacing

\* C36: no Shutdown sentinel outlives the consumer it was sent to stop: at
\* the step where a consumer loop that stop() has stopped exits, the durable
\* store holds no pending Shutdown envelope.
C36_NoSentinelLeftBehind ==
    [][(wpc \in {"loop", "got"} /\ wpc' = "down" /\ wcrashes' = wcrashes) =>
          \A r \in RowIds(rows') :
              rows'[r].message_type = "shutdown" => rows'[r].status = "acked"]_vars

\* C37: at most one consumer loop runs per QueueConsumer at any time, for
\* every sequence of start() and stop() calls.
C37_OneLoopPerConsumer ==
    Cardinality({t \in Threads : IsAlive(t)}) <= 1

\* C38: over its whole lifetime in the store the Speech Sink is invoked for
\* an envelope at most max_retries + 1 times; every invocation either
\* succeeded or failed and was answered with a nack.
C38_AttemptsAreBounded ==
    \A r \in RowIds(rows) :
        okCount[r] + nacks[r] <= MaxRetries + 1

\* C32: a hot-reload respawn leaves the daemon's pid record as it is: no
\* step of the reloader, of a worker that exits or of a worker that starts
\* removes or rewrites it, and is_running() stays true while they go on.
C32_RespawnKeepsPidRecord ==
    [][(sup = "watching" /\ sup' = sup /\ dev' = dev) =>
          /\ pidFile' = pidFile
          /\ IsRunning => (pidFile' # 0 /\ IsProcessRunning(pidFile)')]_vars

\* C32 witness: a respawn is over with the pid record in place: a worker
\* the reloader terminated has exited and the worker it spawned is alive
C32_RespawnedUnderSameRecord ==
    /\ IsRunning
    /\ pidFile = dev.pid
    /\ handle \in alive
    /\ \E w \in spawned \cap signalled : w \notin alive /\ w < handle
    /\ ~Restarting

\* C33: for a burst of modification events less than debounce_seconds apart
\* the restart callback is invoked once, and only when debounce_seconds
\* have gone by with no further event.
C33_OneRestartAfterQuiet ==
    [][\A k \in Timers :
          (tm[k] = "fired" /\ tm'[k] = "restart") =>
              (quiet >= Debounce /\ calls = 0)]_vars

\* C39: whenever is_running() answers true a process executing the consumer
\* loop is alive; in hot-reload mode, where the pid record names the
\* supervisor, a worker subprocess is alive unless the supervisor is just
\* replacing it.
C39_RunningMeansLoopAlive ==
    (IsRunning /\ sup = "watching" /\ ~Restarting) => Workers # {}

\* C40: at most one worker subprocess spawned by the hot reloader is alive
\* at any time.
C40_OneWorkerAtATime ==
    Cardinality(Workers) <= 1

====
